---- MODULE Spec2Model ----
(***************************************************************************)
(* A model of the timing and lifecycle behaviour of dynui-fixed:           *)
(*   - the debounce / throttle utilities,                                  *)
(*   - the useEnhancedValidation hook,                                     *)
(*   - the DynModalEnhanced component with its focus trap and scroll lock. *)
(*   - the DynInputEnhanced text input with its masks and validation,      *)
(*   - the DynCheckbox / DynCheckboxEnhanced checkboxes.                    *)
(* Time is a discrete clock `now`; a timer set with setTimeout(f, d) is a  *)
(* record that becomes due at now + d, and the clock does not advance past *)
(* a due timer.  One action is one browser task: an event handler or timer *)
(* callback together with the React render and effects it causes.          *)
(***************************************************************************)
EXTENDS Integers, Sequences, FiniteSets, Bags, TLC

(* ------------------------------ bounds -------------------------------- *)
MaxTime == 5
MaxDelay == 2
MaxInvocations == 3
MaxArg == 2
MaxOps == 2
MaxHookTime == 1
MaxModalTime == 2
MaxAnimationDuration == 1
MaxFocusable == 2
MaxOutside == 1
MaxMaskLen == 3
MaxTyped == 3
MaxInputLen == 2
MaxRows == 3
MaxPage == 3
MaxPageSize == 2
MaxRuns == 2
MaxKeyLen == 4
MaxSanitize == 2

Delays == 1..MaxDelay
Args == 1..MaxArg

(* ----------------------------- variables ------------------------------ *)
VARIABLES
  now,          \* the clock
  \* debounce(func, delay): one closure
  dbDelay,      \* delay
  dbTimers,     \* pending setTimeout callbacks of the closure
  dbTimeoutId,  \* timeoutId (0: undefined)
  dbCalls,      \* history: calls of func, [at, args]
  dbInvoked,    \* history: invocations of the wrapper, [at, args]
  \* throttle(func, limit): one closure
  thLimit,      \* limit
  thInThrottle, \* inThrottle (FALSE models the initial undefined)
  thTimers,     \* pending setTimeout callbacks of the closure
  thCalls,      \* history: calls of func, [at, args]
  thInvoked,    \* history: invocations of the wrapper, [at, args]
  \* useEnhancedValidation(value, rules, options): one mounted hook
  vMounted,         \* the mount effects have run
  value,            \* the value argument of the latest render
  rules,            \* the rules argument (same array on every render)
  validateOnChange, \* opts.validateOnChange
  validateOnMount,  \* opts.validateOnMount
  debounceMs,       \* opts.debounceMs
  stopOnFirstError, \* opts.stopOnFirstError
  errors,           \* useState: errors
  customError,      \* useState: customError
  isValidating,     \* useState: isValidating
  hasValidated,     \* useState: hasValidated
  vTimeoutId,       \* timeoutId of the current debouncedValidate closure
  vTimers,          \* pending timers of all debouncedValidate closures
  vPending,         \* validate() passes suspended at an asyncValidator
  vChanges,         \* history: value changes, [at, value, hv]
  vChangePasses,    \* history: values of the passes that timers set by value
                    \* changes ran
  vCustomSet,       \* history: the message of the last setCustomError
  vManualDone,      \* history: a validate() call of the host has returned
  vEnded,           \* history: the validate() pass, or the reset() call, that
                    \* ended in the latest step
  vAfterReset,      \* history: reset() was called, and validate() not since
  vLatest,          \* history: the value captured by the validate() pass
                    \* started last since the latest reset()
  vOps,             \* number of host operations so far
  \* DynModalEnhanced: one mounted modal and the document around it
  open,               \* prop open
  animationDuration,  \* prop animationDuration
  closeOnEscape,      \* prop closeOnEscape
  closeOnBackdrop,    \* prop closeOnBackdrop
  nFocusable,         \* number of focusable descendants of the dialog
  sheetOverflow,      \* overflow the stylesheets give the body
  isVisible,          \* useState: isVisible
  isAnimating,        \* useState: isAnimating
  mTimers,            \* pending timers of the opening/closing effect
  mTimerId,           \* timer the effect's cleanup will clear (0: none)
  trapActive,         \* the focus trap effect is active (open && isVisible)
  previouslyFocusedElement, \* useFocusTrap: previouslyFocusedElement.current
  activeElement,      \* document.activeElement
  bodyOverflow,       \* document.body.style.overflow
  originalStyle,      \* useBodyScrollLock: originalStyle of the active lock
  escapeListening,    \* handleEscape is a keydown listener of the document
  mEvent,             \* history: the latest event
  mCalls,             \* history: the callbacks the latest event invoked
  mBefore,            \* history: open, isVisible, activeElement before it
  mChangedAt,         \* history: time of the latest change of open
  mOpenedFrom,        \* history: activeElement when the modal last appeared
  mLifecycle,         \* history: the one of onAfterOpen and onAfterClose that
                      \* was invoked last
  mOverflowAtMount,   \* history: computed body overflow at mount
  \* DynInputEnhanced: one mounted input and its host.  Text the user sees or
  \* types is a sequence of characters.
  mask,             \* prop mask, a string (<<>>: no mask)
  controlled,       \* the host passes value and sets it to what onChange reports
  valueProp,        \* prop value of a controlled input
  validation,       \* prop validation
  iValidateOnChange, \* prop validateOnChange
  validateOnBlur,   \* prop validateOnBlur
  iError,           \* prop error
  iWarning,         \* prop warning
  iSuccess,         \* prop success
  inputValue,       \* useState: inputValue, the value the input element shows
  validationErrors, \* useState: validationErrors
  isFocused,        \* useState: isFocused
  hasInteracted,    \* useState: hasInteracted
  iScript,          \* the text the user is typing
  iTyped,           \* history: how many characters of it are typed
  iEvent,           \* history: the latest event
  onChangeCalls,    \* history: the arguments of the onChange calls it made
  iMounted,         \* the input is mounted
  showCleanButton,  \* prop showCleanButton
  iReadonly,        \* prop readonly
  iDisabled,        \* prop disabled
  iCallOrder,       \* history: the callbacks the latest event called, in order
  iVariant,         \* which of the two input components it is
  iOutcome,         \* history: what the latest handler or method call gave
  \* DynCheckbox / DynCheckboxEnhanced
  cMounted,         \* the checkbox is mounted
  cVariant,         \* which of the two components it is
  cLabel,           \* a label or description prop is given
  cValidation,      \* prop validation: a sequence of rules
  cLoading,         \* prop loading
  cReadonly,        \* prop readonly
  cError,           \* prop error
  cWarning,         \* prop warning
  cSuccess,         \* prop success
  cControlled,      \* the host gives a checked prop
  checkedProp,      \* prop checked, when it is given
  indeterminate,    \* prop indeterminate, as of the latest render
  checked,          \* useState: checked
  isIndeterminate,  \* useState: isIndeterminate
  cValidationErrors, \* useState: validationErrors
  cHasInteracted,   \* useState: hasInteracted
  nativeIndeterminate, \* inputRef.current.indeterminate
  cEvent,           \* history: the latest event
  cBefore,          \* history: isIndeterminate before the latest event
  cOnChange,        \* history: the argument lists of the onChange calls it made
  cOutcome,         \* history: what the latest handler or method call gave
  \* DynTableEnhanced
  tMounted,         \* the table is mounted
  dataSource,       \* prop dataSource: a sequence of records
  hasSelection,     \* prop rowSelection is given
  selectedRowKeys,  \* rowSelection.selectedRowKeys
  pagination,       \* prop pagination: on, current, pageSize, total
  sortConfig,       \* prop sortConfig
  filterConfig,     \* prop filterConfig
  internalSortConfig, \* useState: internalSortConfig
  internalFilters,  \* useState: internalFilters
  tEvent,           \* history: the latest event
  tOnSelect,        \* history: the rowSelection.onSelect calls it made
  tOnSortChange,    \* history: the onSortChange calls it made
  tOnPage,          \* history: the pagination.onChange calls it made
  tClicked,         \* history: the key of the column header clicked last
  \* setup_dynui_enhanced.sh
  fs,               \* the file system: path |-> "dir" or a file's content
  pc,               \* the step of the script that is next
  run,              \* the number of the run in progress
  fsAfterRun,       \* history: the file system at the end of each run
  \* css-generator.ts
  tokenKey,         \* a key of the token tree
  sanitized         \* history: what sanitizeTokenKey gave, applied again and again

dbVars == <<dbDelay, dbTimers, dbTimeoutId, dbCalls, dbInvoked>>
thVars == <<thLimit, thInThrottle, thTimers, thCalls, thInvoked>>
vOptVars == <<rules, validateOnChange, validateOnMount, debounceMs,
              stopOnFirstError>>
vStateVars == <<errors, customError, isValidating, hasValidated>>
vHistVars == <<vChanges, vChangePasses, vCustomSet>>
vCore == <<vMounted, value, vOptVars, vStateVars, vTimeoutId, vTimers,
           vPending, vHistVars, vManualDone, vAfterReset, vOps>>
vVars == <<vCore, vEnded, vLatest>>
mConfig == <<animationDuration, closeOnEscape, closeOnBackdrop, nFocusable,
             sheetOverflow, mOverflowAtMount>>
mVars == <<mConfig, open, isVisible, isAnimating, mTimers, mTimerId, trapActive,
           previouslyFocusedElement, activeElement, bodyOverflow, originalStyle,
           escapeListening, mEvent, mCalls, mBefore, mChangedAt, mOpenedFrom,
           mLifecycle>>
iConfig == <<iMounted, mask, controlled, validation, iValidateOnChange,
             validateOnBlur, iScript, showCleanButton, iReadonly, iDisabled,
             iVariant>>
iProps == <<iError, iWarning, iSuccess>>
iState == <<inputValue, validationErrors, isFocused, hasInteracted, valueProp>>
iHist == <<iTyped, iEvent, onChangeCalls, iCallOrder, iOutcome>>
iVars == <<iConfig, iProps, iState, iHist>>
cFixed == <<cMounted, cVariant, cLabel, cValidation, cLoading, cReadonly,
            cError, cWarning, cSuccess, cControlled>>
cConfig == <<cFixed, checkedProp>>
cState == <<checked, isIndeterminate, cValidationErrors, cHasInteracted,
            nativeIndeterminate>>
cHist == <<cEvent, cBefore, cOnChange, cOutcome>>
cVars == <<cConfig, indeterminate, cState, cHist>>
tProps == <<tMounted, dataSource, hasSelection, selectedRowKeys, pagination,
            sortConfig, filterConfig>>
tState == <<internalSortConfig, internalFilters>>
tHist == <<tEvent, tOnSelect, tOnSortChange, tOnPage, tClicked>>
tVars == <<tProps, tState, tHist>>
sVars == <<fs, pc, run, fsAfterRun>>
gVars == <<tokenKey, sanitized>>
formVars == <<iVars, cVars, tVars, sVars, gVars>>
\* What the actions of the input, of the checkbox and of the table leave alone.
iRest == <<now, dbVars, thVars, vVars, mVars, cVars, tVars, sVars, gVars>>
cRest == <<now, dbVars, thVars, vVars, mVars, iVars, tVars, sVars, gVars>>
tRest == <<now, dbVars, thVars, vVars, mVars, iVars, cVars, sVars, gVars>>
sRest == <<now, dbVars, thVars, vVars, mVars, iVars, cVars, tVars, gVars>>
gRest == <<now, dbVars, thVars, vVars, mVars, iVars, cVars, tVars, sVars>>
vars == <<now, dbVars, thVars, vVars, mVars, formVars>>

(* ------------------------------- timers ------------------------------- *)
\* clearTimeout(id): the timer with that id, if still pending, is removed.
ClearTimeout(timers, id) == {t \in timers : t.id # id}

\* setTimeout returns an id that no pending timer has and that differs from
\* the id the caller still holds.
NextTimerId(timers, held) ==
  LET used == {t.id : t \in timers} \cup {held}
  IN  CHOOSE n \in 1..(Cardinality(used) + 1) :
        n \notin used /\ \A m \in 1..(n - 1) : m \in used

Last(s) == s[Len(s)]

DueTimers ==
  {t \in dbTimers \cup thTimers \cup vTimers \cup mTimers : t.due <= now}

\* Time passes, up to a horizon, only when no timer is due.
TickUpTo(horizon) ==
  /\ now < horizon
  /\ DueTimers = {}
  /\ now' = now + 1

Tick == TickUpTo(MaxTime) /\ UNCHANGED <<dbVars, thVars, vVars, mVars, formVars>>

(* ------------------------------ debounce ------------------------------ *)
DbInit ==
  /\ dbTimers = {}
  /\ dbTimeoutId = 0
  /\ dbCalls = <<>>
  /\ dbInvoked = <<>>

\* The wrapper without its clearTimeout: every invocation leaves a timer.
DebounceScheduleNoClear(timers, timeoutId, new) == timers \cup {new}

\* clearTimeout(timeoutId); timeoutId = setTimeout(() => func(args), delay)
DebounceSchedule(timers, timeoutId, new) ==
  ClearTimeout(timers, timeoutId) \cup {new}

\* One invocation of the function debounce() returned.
DebouncedInvoke(a) ==
  /\ Len(dbInvoked) < MaxInvocations
  /\ LET id == NextTimerId(dbTimers, dbTimeoutId)
         new == [id |-> id, due |-> now + dbDelay, args |-> a]
     IN  /\ dbTimers' = DebounceSchedule(dbTimers, dbTimeoutId, new)
         /\ dbTimeoutId' = id
  /\ dbInvoked' = Append(dbInvoked, [at |-> now, args |-> a])
  /\ UNCHANGED <<now, dbDelay, dbCalls, thVars, vVars, mVars, formVars>>

\* A due timer runs func.apply(null, args).
DebounceTimerFire ==
  \E t \in dbTimers :
    /\ t.due <= now
    /\ dbTimers' = dbTimers \ {t}
    /\ dbCalls' = Append(dbCalls, [at |-> now, args |-> t.args])
    /\ UNCHANGED <<now, dbDelay, dbTimeoutId, dbInvoked, thVars, vVars, mVars, formVars>>

(* ------------------------------ throttle ------------------------------ *)
ThInit ==
  /\ thInThrottle = FALSE
  /\ thTimers = {}
  /\ thCalls = <<>>
  /\ thInvoked = <<>>

\* A throttle that never closes its gate.
ThrottleGateOpen(inThrottle) == TRUE

\* if (!inThrottle)
ThrottleGate(inThrottle) == ~inThrottle

\* One invocation of the function throttle() returned.
ThrottledInvoke(a) ==
  /\ Len(thInvoked) < MaxInvocations
  /\ thInvoked' = Append(thInvoked, [at |-> now, args |-> a])
  /\ IF ThrottleGate(thInThrottle)
       THEN /\ thCalls' = Append(thCalls, [at |-> now, args |-> a])
            /\ thInThrottle' = TRUE
            /\ thTimers' = thTimers \cup
                 {[id |-> NextTimerId(thTimers, 0), due |-> now + thLimit]}
       ELSE UNCHANGED <<thCalls, thInThrottle, thTimers>>
  /\ UNCHANGED <<now, thLimit, dbVars, vVars, mVars, formVars>>

\* setTimeout(() => inThrottle = false, limit)
ThrottleTimerFire ==
  \E t \in thTimers :
    /\ t.due <= now
    /\ thTimers' = thTimers \ {t}
    /\ thInThrottle' = FALSE
    /\ UNCHANGED <<now, thLimit, thCalls, thInvoked, dbVars, vVars, mVars, formVars>>

(* ------------------------ useEnhancedValidation ----------------------- *)
Undefined == "<undefined>"
Null == "<null>"

Values == {"", "a"}
CustomErrorArgs == {Undefined, "", "E1"}

\* if (x) on a string or undefined
Truthy(x) == x \notin {Undefined, ""}

RequiredRule == [type |-> "required", message |-> "is required", validator |-> "-"]
CustomRule == [type |-> "custom", message |-> "must be a", validator |-> "isA"]
ThrowingRule == [type |-> "custom", message |-> "is broken", validator |-> "throws"]
AsyncRule == [type |-> "async", message |-> "is taken", validator |-> "remote"]
\* Rules whose customValidator or asyncValidator is not given.
BareCustomRule ==
  [type |-> "custom", message |-> "custom rule", validator |-> Undefined]
BareAsyncRule ==
  [type |-> "async", message |-> "async rule", validator |-> Undefined]

RuleLists ==
  { <<>>,
    <<RequiredRule>>,
    <<RequiredRule, CustomRule>>,
    <<ThrowingRule, RequiredRule>>,
    <<AsyncRule, RequiredRule>> }

AsyncOutcomes == {"true", "false", "rejects"}

\* value.trim() on the strings of Values
Trim(v) == IF v = " " THEN "" ELSE v

\* VALIDATORS.required on a string
Required(v) == Trim(v) # ""

\* What the check of a rule that does not await does on v: it returns true
\* or false, or it throws; "unknown" is the default branch of the switch.
RuleOutcome(rule, v) ==
  CASE rule.type = "required" -> IF Required(v) THEN "true" ELSE "false"
    [] rule.type = "custom" ->
         IF rule.validator = Undefined THEN "false"
         ELSE IF rule.validator = "throws" THEN "throws"
         ELSE IF rule.validator = "isA" /\ v = "a" THEN "true" ELSE "false"
    [] rule.type = "async" /\ rule.validator = Undefined -> "false"
    [] OTHER -> "unknown"

\* What comes out of validateRule when the exception is not caught there.
Thrown == "<thrown>"

\* validateRule without its try/catch: a throw or rejection escapes.
RuleResultUncaught(rule, outcome) ==
  CASE outcome \in {"true", "unknown"} -> Null
    [] outcome = "false" -> rule.message
    [] OTHER -> Thrown

\* try { ...; return isValid ? null : rule.message }
\* catch (error) { return rule.message }
RuleResult(rule, outcome) ==
  CASE outcome \in {"true", "unknown"} -> Null
    [] outcome = "false" -> rule.message
    [] OTHER -> rule.message

\* validateRule for the rule types that do not await: the message of a rule
\* that fails or throws, Null for one that passes or has an unknown type.
ValidateRule(rule, v) == RuleResult(rule, RuleOutcome(rule, v))

\* validateRule for the async type, given how the asyncValidator settled.
ValidateAsyncRule(rule, outcome) == RuleResult(rule, outcome)

\* A loop that never breaks.
StopsAfterNever(error) == FALSE

\* if (error) { newErrors.push(error); if (opts.stopOnFirstError) break }
StopsAfter(error) == stopOnFirstError

\* The loop of validate() from rule i on, up to the next rule it awaits an
\* asyncValidator for.  AfterRule goes on from the result e of validateRule
\* for rule i.  Both give [done, thrown, idx, errs, evals]: evals lists the
\* rules evaluated so far with what their checks did.
RECURSIVE RunRules(_, _, _, _), AfterRule(_, _, _, _, _)
AfterRule(i, v, errs, evals, e) ==
  IF e = Thrown
    THEN [done |-> TRUE, thrown |-> TRUE, idx |-> i, errs |-> errs,
          evals |-> evals]
  ELSE LET failed == e # Null /\ Truthy(e)
           errs2 == IF failed THEN Append(errs, e) ELSE errs
       IN  IF failed /\ StopsAfter(e)
             THEN [done |-> TRUE, thrown |-> FALSE, idx |-> i, errs |-> errs2,
                   evals |-> evals]
             ELSE RunRules(i + 1, v, errs2, evals)

RunRules(i, v, errs, evals) ==
  IF i > Len(rules)
    THEN [done |-> TRUE, thrown |-> FALSE, idx |-> i, errs |-> errs,
          evals |-> evals]
  ELSE IF rules[i].type = "async" /\ rules[i].validator # Undefined
    THEN [done |-> FALSE, thrown |-> FALSE, idx |-> i, errs |-> errs,
          evals |-> evals]
  ELSE AfterRule(i, v, errs,
                 Append(evals, [idx |-> i, outcome |-> RuleOutcome(rules[i], v)]),
                 ValidateRule(rules[i], v))

\* An auto-validate effect that does not wait for a first validation.
AutoValidatesEagerly(hv) == validateOnChange

\* if (opts.validateOnChange && hasValidated)
AutoValidates(hv) == validateOnChange /\ hv

\* The render after a state or value change and its auto-validate effect.
\* v2, ce2, hv2 are value, customError and hasValidated of the new render.
\* validate, and with it debouncedValidate, is a new closure when value or
\* customError changed; the effect runs when value, debouncedValidate or
\* hasValidated changed and calls debouncedValidate().
RenderEffects(v2, ce2, hv2, cause, timers) ==
  LET newClosure == v2 # value \/ ce2 # customError
      held == IF newClosure THEN 0 ELSE vTimeoutId
      runs == newClosure \/ hv2 # hasValidated
      id == NextTimerId(timers, held)
  IN  IF runs /\ AutoValidates(hv2)
        THEN /\ vTimers' = DebounceSchedule(timers, held,
                  [id |-> id, due |-> now + debounceMs, value |-> v2,
                   customError |-> ce2, cause |-> cause])
             /\ vTimeoutId' = id
        ELSE /\ vTimers' = timers
             /\ vTimeoutId' = held

\* No validate() pass ended in the latest step.
NoPass == [kind |-> "none"]

\* The latest step was a call of reset().
ResetCall == [kind |-> "reset"]

\* The pass that ended in the latest step: how its promise settled, the custom
\* error its closure had captured and the rules it evaluated.
EndedPass(kind, ce, evals) == [kind |-> kind, ce |-> ce, evals |-> evals]

\* A pass suspended at the asyncValidator of rule r.idx.
Suspended(v, ce, r, manual) ==
  [value |-> v, ce |-> ce, idx |-> r.idx, errs |-> r.errs, evals |-> r.evals,
   manual |-> manual]

\* Where validate() stands after the loop result r: ended (setErrors,
\* setIsValidating(false), setHasValidated(true), and the render that
\* follows), rejected by an exception that escaped validateRule (nothing
\* after the loop runs), or suspended.
AfterLoop(v, ce, r, manual, timers, pending) ==
  IF r.thrown
    THEN /\ isValidating' = TRUE
         /\ vTimers' = timers
         /\ vPending' = pending
         /\ vEnded' = EndedPass("rejected", ce, r.evals)
         /\ vManualDone' = (vManualDone \/ manual)
         /\ UNCHANGED <<errors, hasValidated, vTimeoutId>>
  ELSE IF r.done
    THEN /\ errors' = r.errs
         /\ isValidating' = FALSE
         /\ hasValidated' = TRUE
         /\ RenderEffects(value, customError, TRUE, "validated", timers)
         /\ vPending' = pending
         /\ vEnded' = EndedPass("resolved", ce, r.evals)
         /\ vManualDone' = (vManualDone \/ manual)
    ELSE /\ isValidating' = TRUE
         /\ vTimers' = timers
         /\ vPending' = pending (+) SetToBag({Suspended(v, ce, r, manual)})
         /\ vEnded' = NoPass
         /\ UNCHANGED <<errors, hasValidated, vTimeoutId, vManualDone>>

\* A call of the validate closure that captured value v and customError ce,
\* by the host (manual) or by an effect or timer.  Rules that do not await are
\* evaluated within the same task.
StartPass(v, ce, timers, manual) ==
  /\ vLatest' = v
  /\ IF Len(rules) = 0 /\ ~Truthy(ce)
       THEN /\ errors' = <<>>
            /\ vTimers' = timers
            /\ vEnded' = EndedPass("resolved", ce, <<>>)
            /\ vManualDone' = (vManualDone \/ manual)
            /\ UNCHANGED <<isValidating, hasValidated, vTimeoutId, vPending>>
       ELSE AfterLoop(v, ce,
                      RunRules(1, v, IF Truthy(ce) THEN <<ce>> ELSE <<>>, <<>>),
                      manual, timers, vPending)

\* The mount effects: the auto-validate effect finds hasValidated false; the
\* mount effect calls validate() when validateOnMount is set.
Mount ==
  /\ ~vMounted
  /\ vMounted' = TRUE
  /\ IF validateOnMount
       THEN StartPass(value, customError, vTimers, FALSE)
       ELSE /\ vEnded' = NoPass
            /\ UNCHANGED <<errors, isValidating, hasValidated, vTimeoutId,
                           vTimers, vPending, vManualDone, vLatest>>
  /\ UNCHANGED <<now, dbVars, thVars, formVars, mVars, value, vOptVars, customError,
                 vHistVars, vAfterReset, vOps>>

\* The host renders the hook with another value.
ChangeValue(v) ==
  /\ vMounted
  /\ vOps < MaxOps
  /\ v # value
  /\ value' = v
  /\ RenderEffects(v, customError, hasValidated, "change", vTimers)
  /\ vChanges' = Append(vChanges, [at |-> now, value |-> v, hv |-> hasValidated])
  /\ vOps' = vOps + 1
  /\ vEnded' = NoPass
  /\ UNCHANGED <<now, dbVars, thVars, formVars, mVars, vMounted, vOptVars, vStateVars, vPending,
                 vChangePasses, vCustomSet, vManualDone, vAfterReset, vLatest>>

\* The host calls the returned validate().
Validate ==
  /\ vMounted
  /\ vOps < MaxOps
  /\ StartPass(value, customError, vTimers, TRUE)
  /\ vAfterReset' = FALSE
  /\ vOps' = vOps + 1
  /\ UNCHANGED <<now, dbVars, thVars, formVars, mVars, vMounted, value, vOptVars, customError,
                 vHistVars>>

\* A timer of a debouncedValidate closure runs the validate it wraps.
AutoTimerFire ==
  \E t \in vTimers :
    /\ t.due <= now
    /\ StartPass(t.value, t.customError, vTimers \ {t}, FALSE)
    /\ vChangePasses' = IF t.cause = "change"
                          THEN Append(vChangePasses, t.value)
                          ELSE vChangePasses
    /\ UNCHANGED <<now, dbVars, thVars, formVars, mVars, vMounted, value, vOptVars, customError,
                   vChanges, vCustomSet, vAfterReset, vOps>>

\* The asyncValidator a suspended pass awaits settles; the pass goes on.
AsyncSettle(p, outcome) ==
  /\ BagIn(p, vPending)
  /\ AfterLoop(p.value, p.ce,
               AfterRule(p.idx, p.value, p.errs,
                         Append(p.evals, [idx |-> p.idx, outcome |-> outcome]),
                         ValidateAsyncRule(rules[p.idx], outcome)),
               p.manual, vTimers, vPending (-) SetToBag({p}))
  /\ UNCHANGED <<now, dbVars, thVars, formVars, mVars, vMounted, value, vOptVars, customError,
                 vHistVars, vAfterReset, vOps, vLatest>>

\* The host calls the returned setCustomError(error).
SetCustomError(error) ==
  /\ vMounted
  /\ vOps < MaxOps
  /\ customError' = error
  /\ hasValidated' = (Truthy(error) \/ hasValidated)
  /\ RenderEffects(value, error, Truthy(error) \/ hasValidated, "custom", vTimers)
  /\ vCustomSet' = IF Truthy(error) THEN error ELSE Undefined
  /\ vOps' = vOps + 1
  /\ vEnded' = NoPass
  /\ UNCHANGED <<now, dbVars, thVars, formVars, mVars, vMounted, value, vOptVars, errors,
                 isValidating, vPending, vChanges, vChangePasses, vManualDone,
                 vAfterReset, vLatest>>

\* The host calls the returned reset().
Reset ==
  /\ vMounted
  /\ vOps < MaxOps
  /\ errors' = <<>>
  /\ customError' = Undefined
  /\ isValidating' = FALSE
  /\ hasValidated' = FALSE
  /\ RenderEffects(value, Undefined, FALSE, "reset", vTimers)
  /\ vCustomSet' = Undefined
  /\ vOps' = vOps + 1
  /\ vEnded' = ResetCall
  /\ vAfterReset' = TRUE
  /\ vLatest' = Undefined
  /\ UNCHANGED <<now, dbVars, thVars, formVars, mVars, vMounted, value, vOptVars, vPending,
                 vChanges, vChangePasses, vManualDone>>

\* The custom error appended to the rule errors instead of prepended.
AllErrorsCustomLast ==
  errors \o (IF Truthy(customError) THEN <<customError>> ELSE <<>>)

\* The values the hook returns.
AllErrors == (IF Truthy(customError) THEN <<customError>> ELSE <<>>) \o errors
IsValid == Len(AllErrors) = 0 /\ ~isValidating
HasError == Len(AllErrors) > 0
ErrorMessage == IF Len(AllErrors) > 0 THEN AllErrors[1] ELSE Undefined

VStart ==
  /\ vMounted = FALSE
  /\ errors = <<>>
  /\ customError = Undefined
  /\ isValidating = FALSE
  /\ hasValidated = FALSE
  /\ vTimeoutId = 0
  /\ vTimers = {}
  /\ vPending = EmptyBag
  /\ vChanges = <<>>
  /\ vChangePasses = <<>>
  /\ vCustomSet = Undefined
  /\ vManualDone = FALSE
  /\ vEnded = NoPass
  /\ vAfterReset = FALSE
  /\ vLatest = Undefined
  /\ vOps = 0

HookTick ==
  /\ TickUpTo(MaxHookTime)
  /\ vEnded' = NoPass
  /\ UNCHANGED <<dbVars, thVars, formVars, vCore, vLatest, mVars>>

\* The hook as the other specifications leave it: not mounted.
VIdle ==
  /\ value = ""
  /\ rules = <<>>
  /\ validateOnChange = TRUE
  /\ validateOnMount = FALSE
  /\ debounceMs = 1
  /\ stopOnFirstError = FALSE
  /\ VStart

(* -------------------------- DynModalEnhanced -------------------------- *)
\* DOM elements: the body, focusable elements outside the dialog, the dialog
\* container (tabIndex -1) and its focusable descendants in document order.
Body == <<"body", 0>>
NoElement == <<"null", 0>>
Container == <<"dialog", 0>>
Focusable(i) == <<"focusable", i>>
OutsideElements == {<<"outside", i>> : i \in 1..MaxOutside}

\* getFocusableElements()
FocusableElements == {Focusable(i) : i \in 1..nFocusable}

InDialog(el) == el = Container \/ el \in FocusableElements

\* The body's inline overflow and the overflow its stylesheets give, at
\* mount; the stylesheets do not matter under an inline style.
BodyStyles ==
  { <<"", "visible">>, <<"", "scroll">>, <<"auto", "visible">>,
    <<"hidden", "visible">> }

\* window.getComputedStyle(document.body).overflow: the inline style when set,
\* else what the stylesheets give.
ComputedOverflow(inline) == IF inline # "" THEN inline ELSE sheetOverflow

\* if (!isVisible) return null
Rendered == isVisible

\* The animation class of the backdrop and the dialog.
AnimationClass ==
  IF ~isAnimating THEN "none" ELSE IF open THEN "entering" ELSE "exiting"

\* el.focus(): the body and a missing element take no focus.
FocusAfter(el, current) == IF el \in {Body, NoElement} THEN current ELSE el

\* The opening effect closing at once, with no exit animation.
MainEffectNoExit(o, vis) ==
  IF o THEN [runs |-> TRUE, isVisible |-> TRUE, isAnimating |-> TRUE, kind |-> "open"]
  ELSE [runs |-> FALSE, isVisible |-> FALSE, isAnimating |-> FALSE, kind |-> "none"]

\* The opening effect leaving the dialog hidden until the timer runs.
MainEffectLateShow(o, vis) ==
  IF o THEN [runs |-> TRUE, isVisible |-> vis, isAnimating |-> TRUE, kind |-> "open"]
  ELSE IF vis
    THEN [runs |-> TRUE, isVisible |-> vis, isAnimating |-> TRUE, kind |-> "close"]
    ELSE [runs |-> FALSE, isVisible |-> vis, isAnimating |-> isAnimating, kind |-> "none"]

\* The body of the opening/closing effect for open = o, isVisible = vis: the
\* state it sets and the timer it starts.
MainEffect(o, vis) ==
  IF o THEN [runs |-> TRUE, isVisible |-> TRUE, isAnimating |-> TRUE, kind |-> "open"]
  ELSE IF vis
    THEN [runs |-> TRUE, isVisible |-> vis, isAnimating |-> TRUE, kind |-> "close"]
    ELSE [runs |-> FALSE, isVisible |-> vis, isAnimating |-> isAnimating, kind |-> "none"]

\* The focus trap forgetting to give the focus back.
TrapCleanupFocusKept(prev, current) == current

\* The cleanup of the focus trap effect: previouslyFocusedElement.focus()
TrapCleanupFocus(prev, current) == FocusAfter(prev, current)

\* The initial focus of the trap: the first focusable element, else the
\* container.
InitialFocus == IF nFocusable > 0 THEN Focusable(1) ELSE Container

\* The cleanup of the scroll lock restoring an empty inline style.
LockCleanupEmpty(saved) == ""

\* The cleanup of the scroll lock: document.body.style.overflow = originalStyle
LockCleanup(saved) == saved

\* The commit of a render with open = o after state (vis, anim), with the
\* effects whose dependencies changed: the opening/closing effect (cleanup,
\* then body, then once more for the isVisible it set), the focus trap for
\* open && isVisible, the scroll lock and the Escape listener for open.
\* changed tells that onAfterOpen or onAfterClose is another function than in
\* the render before, which makes the opening/closing effect run again; the
\* other dependencies of the effects (animationDuration, closeOnEscape,
\* onClose) are props that keep their value and identity.
CommitWith(o, vis, anim, timers, changed) ==
  LET reruns == changed \/ o # open \/ vis # isVisible
      eff == IF reruns
               THEN MainEffect(o, vis)
               ELSE [runs |-> FALSE, isVisible |-> vis, isAnimating |-> anim,
                     kind |-> "none"]
      vis2 == eff.isVisible
      anim2 == IF eff.runs THEN eff.isAnimating ELSE anim
      cleared == IF reruns THEN ClearTimeout(timers, mTimerId) ELSE timers
      id == NextTimerId(cleared, 0)
      active2 == o /\ vis2
      restored == IF trapActive /\ ~active2
                    THEN TrapCleanupFocus(previouslyFocusedElement, activeElement)
                    ELSE activeElement
  IN  /\ open' = o
      /\ isVisible' = vis2
      /\ isAnimating' = anim2
      /\ IF eff.runs
           THEN /\ mTimers' = cleared \cup
                     {[id |-> id, due |-> now + animationDuration, kind |-> eff.kind]}
                /\ mTimerId' = id
           ELSE /\ mTimers' = cleared
                /\ mTimerId' = IF reruns THEN 0 ELSE mTimerId
      /\ trapActive' = active2
      /\ previouslyFocusedElement' =
           IF active2 /\ ~trapActive THEN activeElement
           ELSE previouslyFocusedElement
      /\ activeElement' =
           IF active2 /\ ~trapActive THEN InitialFocus
           ELSE IF ~vis2 /\ InDialog(restored) THEN Body
           ELSE restored
      /\ IF o /\ ~open
           THEN /\ originalStyle' = ComputedOverflow(bodyOverflow)
                /\ bodyOverflow' = "hidden"
           ELSE IF ~o /\ open
             THEN /\ bodyOverflow' = LockCleanup(originalStyle)
                  /\ UNCHANGED originalStyle
             ELSE UNCHANGED <<bodyOverflow, originalStyle>>
      /\ escapeListening' = (closeOnEscape /\ o)

\* The commit of a render that passes the callbacks of the render before.
Commit(o, vis, anim, timers) == CommitWith(o, vis, anim, timers, FALSE)

\* What was the case before the latest event, for the event's effect.
Before == [open |-> open, isVisible |-> isVisible, activeElement |-> activeElement]

\* The host renders the modal with another value of open.
SetOpen(o) ==
  /\ o # open
  /\ Commit(o, isVisible, isAnimating, mTimers)
  /\ mEvent' = "setOpen"
  /\ mCalls' = <<>>
  /\ mBefore' = Before
  /\ mChangedAt' = now
  /\ mOpenedFrom' = IF o /\ ~isVisible THEN activeElement ELSE mOpenedFrom
  /\ UNCHANGED <<now, mConfig, mLifecycle, dbVars, thVars, formVars, vVars>>

\* The host renders the modal again with the same open and with new function
\* identities for onAfterOpen and onAfterClose, as inline arrow functions
\* give on every render of the host.
Rerender ==
  /\ CommitWith(open, isVisible, isAnimating, mTimers, TRUE)
  /\ mEvent' = "rerender"
  /\ mCalls' = <<>>
  /\ mBefore' = Before
  /\ UNCHANGED <<now, mConfig, mChangedAt, mOpenedFrom, mLifecycle, dbVars,
                 thVars, formVars, vVars>>

\* The timer of the opening/closing effect runs.
ModalTimerFire ==
  \E t \in mTimers :
    /\ t.due <= now
    /\ IF t.kind = "open"
         THEN /\ Commit(open, isVisible, FALSE, mTimers \ {t})
              /\ mCalls' = <<"onAfterOpen">>
         ELSE /\ Commit(open, FALSE, FALSE, mTimers \ {t})
              /\ mCalls' = <<"onAfterClose">>
    /\ mEvent' = IF t.kind = "open" THEN "timerOpen" ELSE "timerClose"
    /\ mLifecycle' = IF t.kind = "open" THEN "onAfterOpen" ELSE "onAfterClose"
    /\ mBefore' = Before
    /\ UNCHANGED <<now, mConfig, mChangedAt, mOpenedFrom, dbVars, thVars, formVars, vVars>>

\* handleTabKeyDown: where it moves the focus, NoElement when it leaves the
\* key to the browser.
HandleTabNoWrap(shift, current) == NoElement

HandleTabKeyDown(shift, current) ==
  IF nFocusable = 0 THEN NoElement
  ELSE IF shift
    THEN IF current = Focusable(1) THEN Focusable(nFocusable) ELSE NoElement
    ELSE IF current = Focusable(nFocusable) THEN Focusable(1) ELSE NoElement

\* The elements the browser's own Tab / Shift+Tab may move the focus to from
\* current: the neighbour in the dialog, or, past its ends, anything outside.
BrowserTab(shift, current) ==
  LET outside == OutsideElements \cup {Body}
  IN  IF current \in FocusableElements
        THEN LET i == current[2]
                 j == IF shift THEN i - 1 ELSE i + 1
             IN  IF j \in 1..nFocusable THEN {Focusable(j)} ELSE outside
      ELSE IF current = Container /\ ~shift /\ nFocusable > 0
        THEN {Focusable(1)}
        ELSE outside

\* Tab or Shift+Tab is pressed while the trap listens on the document.
KeyTab(shift) ==
  /\ trapActive
  /\ LET handled == HandleTabKeyDown(shift, activeElement)
     IN  IF handled # NoElement
           THEN activeElement' = handled
           ELSE activeElement' \in BrowserTab(shift, activeElement)
  /\ mEvent' = IF shift THEN "shiftTab" ELSE "tab"
  /\ mCalls' = <<>>
  /\ mBefore' = Before
  /\ UNCHANGED <<now, mConfig, open, isVisible, isAnimating, mTimers, mTimerId,
                 trapActive, previouslyFocusedElement, bodyOverflow,
                 originalStyle, escapeListening, mChangedAt, mOpenedFrom,
                 mLifecycle, dbVars, thVars, formVars, vVars>>

\* handleEscape, when the listener is on the document.
KeyEscape ==
  /\ mCalls' = IF escapeListening THEN <<"onClose">> ELSE <<>>
  /\ mEvent' = "escape"
  /\ mBefore' = Before
  /\ UNCHANGED <<now, mConfig, open, isVisible, isAnimating, mTimers, mTimerId,
                 trapActive, previouslyFocusedElement, activeElement,
                 bodyOverflow, originalStyle, escapeListening, mChangedAt,
                 mOpenedFrom, mLifecycle, dbVars, thVars, formVars, vVars>>

\* A backdrop click handler that ignores closeOnBackdrop.
HandleBackdropClickAlways(target) ==
  IF target = "backdrop" THEN <<"onBackdropClick", "onClose">> ELSE <<>>

\* handleBackdropClick: the callbacks it invokes for a click whose target is
\* the backdrop itself or something in the dialog.
HandleBackdropClick(target) ==
  IF target = "backdrop" /\ closeOnBackdrop
    THEN <<"onBackdropClick", "onClose">>
    ELSE <<>>

\* A click on the rendered modal reaches the backdrop's onClick.
Click(target) ==
  /\ Rendered
  /\ mCalls' = HandleBackdropClick(target)
  /\ mEvent' = IF target = "backdrop" THEN "backdropClick" ELSE "dialogClick"
  /\ mBefore' = Before
  /\ UNCHANGED <<now, mConfig, open, isVisible, isAnimating, mTimers, mTimerId,
                 trapActive, previouslyFocusedElement, activeElement,
                 bodyOverflow, originalStyle, escapeListening, mChangedAt,
                 mOpenedFrom, mLifecycle, dbVars, thVars, formVars, vVars>>

\* With no modal on the page the user moves the focus to an element of the
\* page, or away from all of them.
UserFocus(el) ==
  /\ ~Rendered /\ ~open
  /\ el # activeElement
  /\ activeElement' = el
  /\ mEvent' = "userFocus"
  /\ mCalls' = <<>>
  /\ mBefore' = Before
  /\ UNCHANGED <<now, mConfig, open, isVisible, isAnimating, mTimers, mTimerId,
                 trapActive, previouslyFocusedElement, bodyOverflow,
                 originalStyle, escapeListening, mChangedAt, mOpenedFrom,
                 mLifecycle, dbVars, thVars, formVars, vVars>>

ModalTick ==
  /\ TickUpTo(MaxModalTime)
  /\ mEvent' = "tick"
  /\ mCalls' = <<>>
  /\ mBefore' = Before
  /\ UNCHANGED <<mConfig, open, isVisible, isAnimating, mTimers, mTimerId,
                 trapActive, previouslyFocusedElement, activeElement,
                 bodyOverflow, originalStyle, escapeListening, mChangedAt,
                 mOpenedFrom, mLifecycle, dbVars, thVars, formVars, vVars>>

\* The modal mounted with open = false: every effect has run and done nothing.
MStart ==
  /\ open = FALSE
  /\ isVisible = FALSE
  /\ isAnimating = FALSE
  /\ mTimers = {}
  /\ mTimerId = 0
  /\ trapActive = FALSE
  /\ previouslyFocusedElement = NoElement
  /\ activeElement = Body
  /\ originalStyle = ""
  /\ escapeListening = FALSE
  /\ mEvent = "mount"
  /\ mCalls = <<>>
  /\ mBefore = [open |-> FALSE, isVisible |-> FALSE, activeElement |-> Body]
  /\ mChangedAt = 0
  /\ mOpenedFrom = NoElement
  /\ mLifecycle = "none"
  /\ mOverflowAtMount = ComputedOverflow(bodyOverflow)

\* The modal as the other specifications leave it.
MIdle ==
  /\ animationDuration = 0
  /\ closeOnEscape = TRUE
  /\ closeOnBackdrop = TRUE
  /\ nFocusable = 0
  /\ sheetOverflow = "visible"
  /\ bodyOverflow = ""
  /\ MStart

(* -------------------------- DynInputEnhanced -------------------------- *)
Digits == {"0", "1", "2", "3", "4", "5", "6", "7", "8", "9"}
Letters == {"a", "b", "c", "d", "e", "f", "g", "h", "i", "A"}

\* inputChar.toUpperCase() on the letters of Letters
ToUpperCase(c) == IF c = "a" THEN "A" ELSE c

\* The placeholder characters of a mask: /[9A*]/
MaskPlaceholders == {"9", "A", "*"}

\* The loop of applyMask from mask index i and value index valueIndex on
\* (both counted from 1), with maskedValue so far.
RECURSIVE ApplyMaskFrom(_, _, _, _, _)
ApplyMaskFrom(v, m, i, valueIndex, maskedValue) ==
  IF i > Len(m) \/ valueIndex > Len(v) THEN maskedValue
  ELSE LET maskChar == m[i]
           inputChar == v[valueIndex]
           consumed == ApplyMaskFrom(v, m, i + 1, valueIndex + 1,
                                     Append(maskedValue, inputChar))
       IN  CASE maskChar = "9" ->
                  IF inputChar \in Digits THEN consumed ELSE maskedValue
             [] maskChar = "A" ->
                  IF inputChar \in Letters
                    THEN ApplyMaskFrom(v, m, i + 1, valueIndex + 1,
                                       Append(maskedValue, ToUpperCase(inputChar)))
                    ELSE maskedValue
             [] maskChar = "*" -> consumed
             [] OTHER ->
                  ApplyMaskFrom(v, m, i + 1, valueIndex, Append(maskedValue, maskChar))

applyMask(v, m) == ApplyMaskFrom(v, m, 1, 1, <<>>)

\* removeMask: every character that is a literal of the mask is dropped.
removeMask(v, m) ==
  LET maskChars == {m[i] : i \in 1..Len(m)} \ MaskPlaceholders
  IN  SelectSeq(v, LAMBDA c : c \notin maskChars)

\* newValue.replace(/\D/g, '')
StripNonDigits(v) == SelectSeq(v, LAMBDA c : c \in Digits)

\* VALIDATORS.required: value.trim().length > 0
InputRequired(v) == \E i \in 1..Len(v) : v[i] # " "

InputRequiredRule == [type |-> "required", message |-> "This field is required", value |-> 0]
InputMinRule == [type |-> "min", message |-> "Too short", value |-> 2]

InputCustomRule ==
  [type |-> "custom", message |-> "Must be a", value |-> 0, validator |-> "isA"]
InputThrowingRule ==
  [type |-> "custom", message |-> "Is broken", value |-> 0,
   validator |-> "throws"]
InputBareCustomRule ==
  [type |-> "custom", message |-> "Custom rule", value |-> 0,
   validator |-> Undefined]
InputAsyncRule ==
  [type |-> "async", message |-> "Is taken", value |-> 0, validator |-> "remote"]
InputBareAsyncRule ==
  [type |-> "async", message |-> "Async rule", value |-> 0,
   validator |-> Undefined]

\* The dual-mode component of the installer and its always-enhanced sibling.
DynInput == "DynInput"
DynInputEnhanced == "DynInputEnhanced"

\* hasEnhancedFeatures of DynInput; DynInputEnhanced has no basic mode.
inputEnhanced ==
  \/ iVariant = DynInputEnhanced
  \/ Len(validation) > 0
  \/ mask # <<>>
  \/ showCleanButton

\* What the switch of validateInput does for one rule: isValid starts false
\* and the async type, where it has a case at all, leaves it so.
InputRuleOutcome(rule, v) ==
  CASE rule.type = "required" -> IF InputRequired(v) THEN "true" ELSE "false"
    [] rule.type = "min" ->
         IF v = <<>> \/ Len(v) >= rule.value THEN "true" ELSE "false"
    [] rule.type = "custom" ->
         IF v = <<>> \/ rule.validator = Undefined THEN "true"
         ELSE IF rule.validator = "throws" THEN "throws"
         ELSE IF v = <<"a">> THEN "true" ELSE "false"
    [] OTHER -> "false"

\* The check of one rule in validateInput.
InputRuleValid(rule, v) == InputRuleOutcome(rule, v) = "true"

\* A customValidator throws in validateInput, which catches nothing.
validateInputThrows(v) ==
  \E i \in 1..Len(validation) : InputRuleOutcome(validation[i], v) = "throws"

\* validateInput: the messages of the rules that fail, in rule order.
validateInput(v) ==
  LET failing == SelectSeq(validation, LAMBDA rule : ~InputRuleValid(rule, v))
  IN  [j \in 1..Len(failing) |-> failing[j].message]

\* maskPattern && typeof maskPattern === 'string'
HasStringMask == mask # <<>>

\* handleChange for a change event whose event.target.value is target, with
\* the render that follows: a controlled input's host sets the value prop to
\* what onChange reported, and the sync effect copies a changed value prop
\* into inputValue.
handleChange(target) ==
  LET newValue == IF HasStringMask
                    THEN applyMask(StripNonDigits(target), mask)
                    ELSE target
      outputValue == IF HasStringMask THEN removeMask(newValue, mask) ELSE newValue
      validates == inputEnhanced /\ iValidateOnChange /\ hasInteracted
      throws == validates /\ validateInputThrows(newValue)
      synced == controlled /\ ~throws /\ outputValue # valueProp
  IN  /\ inputValue' = IF synced THEN outputValue ELSE newValue
      /\ valueProp' = IF controlled /\ ~throws THEN outputValue ELSE valueProp
      /\ hasInteracted' = (inputEnhanced \/ hasInteracted)
      /\ validationErrors' = IF validates /\ ~throws
                               THEN validateInput(newValue)
                               ELSE validationErrors
      /\ onChangeCalls' = IF throws THEN <<>> ELSE <<outputValue>>
      /\ iCallOrder' = IF throws THEN <<>> ELSE <<"onChange">>
      /\ iOutcome' = IF throws THEN Thrown ELSE "done"
      /\ UNCHANGED <<isFocused, iConfig, iProps>>

\* The browser lets the user edit the text of an input that is neither
\* readonly nor disabled, and focus one that is not disabled.
Editable == ~iReadonly /\ ~iDisabled

\* The user types the character c at the end of the focused input.
TypeChar(c) ==
  /\ isFocused
  /\ Editable
  /\ handleChange(Append(inputValue, c))
  /\ iEvent' = "type"

\* The user types the next character of the text.
TypeNext ==
  /\ iTyped < Len(iScript)
  /\ TypeChar(iScript[iTyped + 1])
  /\ iTyped' = iTyped + 1
  /\ UNCHANGED <<iRest>>

\* The user types a character, in an input that holds less than MaxInputLen.
TypeAny(c) ==
  /\ Len(inputValue) < MaxInputLen
  /\ TypeChar(c)
  /\ UNCHANGED <<iTyped, iRest>>

\* The user deletes the last character of the focused input.
DeleteChar ==
  /\ isFocused
  /\ Editable
  /\ inputValue # <<>>
  /\ handleChange(SubSeq(inputValue, 1, Len(inputValue) - 1))
  /\ iEvent' = "delete"
  /\ UNCHANGED <<iTyped, iRest>>

\* handleFocus
InputFocus ==
  /\ iMounted
  /\ ~iDisabled
  /\ ~isFocused
  /\ isFocused' = TRUE
  /\ iEvent' = "focus"
  /\ onChangeCalls' = <<>>
  /\ iCallOrder' = <<>>
  /\ iOutcome' = "done"
  /\ UNCHANGED <<inputValue, validationErrors, hasInteracted, valueProp, iConfig,
                 iProps, iTyped, iRest>>

\* A blur handler that validates nothing.
BlurErrorsKept(v) == validationErrors

\* if (validateOnBlur) setValidationErrors(validateInput(inputValue))
BlurErrors(v) == IF validateOnBlur THEN validateInput(v) ELSE validationErrors

\* handleBlur
InputBlur ==
  /\ isFocused
  /\ isFocused' = FALSE
  /\ hasInteracted' = (inputEnhanced \/ hasInteracted)
  /\ LET throws == /\ inputEnhanced
                    /\ validateOnBlur
                    /\ validateInputThrows(inputValue)
     IN  /\ validationErrors' = IF inputEnhanced /\ ~throws
                                  THEN BlurErrors(inputValue)
                                  ELSE validationErrors
         /\ iOutcome' = IF throws THEN Thrown ELSE "done"
  /\ iEvent' = "blur"
  /\ onChangeCalls' = <<>>
  /\ iCallOrder' = <<>>
  /\ UNCHANGED <<inputValue, valueProp, iConfig, iProps, iTyped, iRest>>

\* A clean button that shows for every non-empty value.
showCleanActionAlways == showCleanButton /\ inputValue # <<>>

\* showCleanAction: the clean button is rendered.
showCleanAction ==
  showCleanButton /\ inputValue # <<>> /\ ~iReadonly /\ ~iDisabled

\* handleClean, from a click on the clean button, with the render that
\* follows: the host of a controlled input stores the reported '' and
\* inputRef.current.focus() brings handleFocus.
CleanClick ==
  /\ iMounted
  /\ showCleanAction
  /\ inputValue' = <<>>
  /\ validationErrors' = <<>>
  /\ onChangeCalls' = << <<>> >>
  /\ iCallOrder' = <<"onChange", "onClean">>
  /\ valueProp' = IF controlled THEN <<>> ELSE valueProp
  /\ isFocused' = TRUE
  /\ iEvent' = "clean"
  /\ iOutcome' = "done"
  /\ UNCHANGED <<hasInteracted, iConfig, iProps, iTyped, iRest>>

\* The imperative validate() of the ref handle, with the values of the
\* latest render: DynInput in basic mode returns true at once.
InputValidate ==
  /\ iMounted
  /\ LET throws == inputEnhanced /\ validateInputThrows(inputValue)
         errs == validateInput(inputValue)
     IN  /\ validationErrors' = IF inputEnhanced /\ ~throws
                                  THEN errs
                                  ELSE validationErrors
         /\ iOutcome' = IF throws THEN Thrown
                        ELSE IF ~inputEnhanced \/ Len(errs) = 0 THEN "true"
                        ELSE "false"
  /\ iEvent' = "validate"
  /\ onChangeCalls' = <<>>
  /\ iCallOrder' = <<>>
  /\ UNCHANGED <<inputValue, isFocused, hasInteracted, valueProp, iConfig,
                 iProps, iTyped, iRest>>

\* setValue(newValue) of the ref handle, with the render that follows: the
\* host of a controlled input stores the reported value.
InputSetValue(newValue) ==
  /\ iMounted
  /\ inputValue' = newValue
  /\ onChangeCalls' = <<newValue>>
  /\ iCallOrder' = <<"onChange">>
  /\ valueProp' = IF controlled THEN newValue ELSE valueProp
  /\ iEvent' = "setValue"
  /\ iOutcome' = "done"
  /\ UNCHANGED <<validationErrors, isFocused, hasInteracted, iConfig, iProps,
                 iTyped, iRest>>

\* The host renders the input with other error, warning and success props.
SetFeedback(e, w, sc) ==
  /\ iMounted
  /\ <<e, w, sc>> # <<iError, iWarning, iSuccess>>
  /\ iError' = e
  /\ iWarning' = w
  /\ iSuccess' = sc
  /\ iEvent' = "props"
  /\ onChangeCalls' = <<>>
  /\ iCallOrder' = <<>>
  /\ iOutcome' = "none"
  /\ UNCHANGED <<iState, iConfig, iTyped, iRest>>

\* A feedback state in which a warning shows beside an error.
hasWarningAlways == Truthy(iWarning)

\* The feedback state of the input and the message its field container gets.
hasError == Truthy(iError) \/ Len(validationErrors) > 0
hasWarning == Truthy(iWarning) /\ ~hasError
hasSuccess == Truthy(iSuccess) /\ ~hasError /\ ~hasWarning
currentError ==
  IF Truthy(iError) THEN iError
  ELSE IF Len(validationErrors) > 0 THEN validationErrors[1] ELSE Undefined

\* The input after its mount, empty.
IStart ==
  /\ iCallOrder = <<>>
  /\ iOutcome = "none"
  /\ inputValue = <<>>
  /\ valueProp = <<>>
  /\ validationErrors = <<>>
  /\ isFocused = FALSE
  /\ hasInteracted = FALSE
  /\ iTyped = 0
  /\ iEvent = "mount"
  /\ onChangeCalls = <<>>

\* DynInputEnhanced without a clean button, and the input can be edited.
IPlain ==
  /\ iVariant = DynInputEnhanced
  /\ showCleanButton = FALSE
  /\ iReadonly = FALSE
  /\ iDisabled = FALSE

\* No feedback props.
INoFeedback ==
  /\ iError = Undefined
  /\ iWarning = Undefined
  /\ iSuccess = Undefined

\* The input as the other specifications leave it.
IIdle ==
  /\ iMounted = FALSE
  /\ mask = <<>>
  /\ controlled = FALSE
  /\ validation = <<>>
  /\ iValidateOnChange = TRUE
  /\ validateOnBlur = TRUE
  /\ iScript = <<>>
  /\ IPlain
  /\ INoFeedback
  /\ IStart

(* -------------------- DynCheckbox / DynCheckboxEnhanced ------------------- *)
\* The dual-mode component and its always-enhanced sibling.
DynCheckbox == "DynCheckbox"
DynCheckboxEnhanced == "DynCheckboxEnhanced"

CheckboxRequiredRule == [type |-> "required", message |-> "You must accept"]

\* hasEnhancedFeatures of a render whose indeterminate prop is ind;
\* DynCheckboxEnhanced has no basic mode.
EnhancedWith(ind) ==
  \/ cVariant = DynCheckboxEnhanced
  \/ ind
  \/ cLabel
  \/ Truthy(cError)
  \/ Truthy(cWarning)
  \/ Truthy(cSuccess)
  \/ Len(cValidation) > 0
  \/ cLoading

hasEnhancedFeatures == EnhancedWith(indeterminate)

CheckboxCustomRule ==
  [type |-> "custom", message |-> "Must stay off", validator |-> "isOff"]
CheckboxThrowingRule ==
  [type |-> "custom", message |-> "Is broken", validator |-> "throws"]
CheckboxBareCustomRule ==
  [type |-> "custom", message |-> "Custom rule", validator |-> Undefined]

\* What the switch of validateCheckbox does for one rule.
CheckboxRuleOutcome(rule, c) ==
  CASE rule.type = "required" -> IF c THEN "true" ELSE "false"
    [] rule.type = "custom" ->
         IF rule.validator = Undefined THEN "true"
         ELSE IF rule.validator = "throws" THEN "throws"
         ELSE IF ~c THEN "true" ELSE "false"
    [] OTHER -> "false"

\* case 'required': isValid = checked
CheckboxRuleValid(rule, c) == CheckboxRuleOutcome(rule, c) = "true"

\* A customValidator throws in validateCheckbox, which catches nothing.
validateCheckboxThrows(c) ==
  /\ hasEnhancedFeatures
  /\ \E i \in 1..Len(cValidation) :
       CheckboxRuleOutcome(cValidation[i], c) = "throws"

\* validateCheckbox: the messages of the failing rules, in order.
validateCheckbox(c) ==
  IF ~hasEnhancedFeatures \/ Len(cValidation) = 0 THEN <<>>
  ELSE LET failing == SelectSeq(cValidation,
                                LAMBDA rule : ~CheckboxRuleValid(rule, c))
       IN  [i \in 1..Len(failing) |-> failing[i].message]

\* The effect that pushes isIndeterminate onto the input element: it runs
\* when isIndeterminate or hasEnhancedFeatures has changed, and writes only in
\* enhanced mode.  e0, i0 are the values of the render before, e1, i1 of this
\* one, native is the flag the element has.
NativeAfter(e0, e1, i0, i1, native) ==
  IF e1 /\ (i1 # i0 \/ e1 # e0) THEN i1 ELSE native

\* The body of handleChange and handleKeyDown past the readonly / disabled /
\* loading guard, with the render that follows; native is the element's flag
\* when the handler runs.
SetCheckedByUser(newChecked, native) ==
  /\ checked' = newChecked
  /\ IF hasEnhancedFeatures
       THEN /\ isIndeterminate' = FALSE
            /\ cHasInteracted' = TRUE
            /\ IF validateCheckboxThrows(newChecked)
                 THEN /\ cOutcome' = Thrown
                      /\ cOnChange' = <<>>
                      /\ UNCHANGED cValidationErrors
                 ELSE /\ cOutcome' = "done"
                      /\ cValidationErrors' = validateCheckbox(newChecked)
                      /\ cOnChange' = << <<newChecked, FALSE>> >>
       ELSE /\ cOnChange' = << <<newChecked>> >>
            /\ cOutcome' = "done"
            /\ UNCHANGED <<isIndeterminate, cHasInteracted, cValidationErrors>>
  /\ nativeIndeterminate' =
       NativeAfter(hasEnhancedFeatures, hasEnhancedFeatures, isIndeterminate,
                   isIndeterminate', native)

\* The user clicks the checkbox: the browser clears the element's
\* indeterminate flag, flips its checked flag and fires the change event, so
\* event.target.checked is ~checked.  An input that is disabled (disabled or
\* loading) gets no click; readonly does not stop the browser, only the
\* handler.
CheckboxChange ==
  /\ cMounted
  /\ ~cLoading
  /\ IF cReadonly
       THEN /\ nativeIndeterminate' = FALSE
            /\ cOnChange' = <<>>
            /\ cOutcome' = "done"
            /\ UNCHANGED <<checked, isIndeterminate, cHasInteracted,
                           cValidationErrors>>
       ELSE SetCheckedByUser(~checked, FALSE)
  /\ cEvent' = "change"
  /\ cBefore' = isIndeterminate
  /\ UNCHANGED <<cConfig, indeterminate, cRest>>

\* handleKeyDown of DynCheckboxEnhanced for Space or Enter; preventDefault
\* keeps the browser from acting on the key.
CheckboxKeyDown ==
  /\ cMounted
  /\ cVariant = DynCheckboxEnhanced
  /\ ~cLoading
  /\ IF cReadonly
       THEN /\ cOnChange' = <<>>
            /\ cOutcome' = "done"
            /\ UNCHANGED cState
       ELSE SetCheckedByUser(~checked, nativeIndeterminate)
  /\ cEvent' = "keydown"
  /\ cBefore' = isIndeterminate
  /\ UNCHANGED <<cConfig, indeterminate, cRest>>

\* handleBlur
CheckboxBlur ==
  /\ cMounted
  /\ IF hasEnhancedFeatures
       THEN /\ cHasInteracted' = TRUE
            /\ IF validateCheckboxThrows(checked)
                 THEN UNCHANGED cValidationErrors
                 ELSE cValidationErrors' = validateCheckbox(checked)
       ELSE UNCHANGED <<cHasInteracted, cValidationErrors>>
  /\ cOutcome' = IF validateCheckboxThrows(checked) THEN Thrown ELSE "done"
  /\ cEvent' = "blur"
  /\ cBefore' = isIndeterminate
  /\ cOnChange' = <<>>
  /\ UNCHANGED <<checked, isIndeterminate, nativeIndeterminate, cConfig,
                 indeterminate, cRest>>

\* The imperative validate() of the ref handle, which DynCheckbox has only
\* in enhanced mode.
CheckboxValidate ==
  /\ cMounted
  /\ hasEnhancedFeatures
  /\ IF validateCheckboxThrows(checked)
       THEN /\ cOutcome' = Thrown
            /\ UNCHANGED cValidationErrors
       ELSE /\ cValidationErrors' = validateCheckbox(checked)
            /\ cOutcome' = IF Len(validateCheckbox(checked)) = 0
                             THEN "true" ELSE "false"
  /\ cEvent' = "validate"
  /\ cBefore' = isIndeterminate
  /\ cOnChange' = <<>>
  /\ UNCHANGED <<checked, isIndeterminate, cHasInteracted,
                 nativeIndeterminate, cConfig, indeterminate, cRest>>

\* toggle() and setChecked() of the ref handle past their guard, with the
\* render that follows: no validation and no hasInteracted.
SetCheckedByHandle(newChecked) ==
  /\ checked' = newChecked
  /\ isIndeterminate' = IF hasEnhancedFeatures THEN FALSE ELSE isIndeterminate
  /\ cOnChange' = IF hasEnhancedFeatures THEN << <<newChecked, FALSE>> >>
                  ELSE << <<newChecked>> >>
  /\ nativeIndeterminate' =
       NativeAfter(hasEnhancedFeatures, hasEnhancedFeatures, isIndeterminate,
                   isIndeterminate', nativeIndeterminate)
  /\ UNCHANGED <<cHasInteracted, cValidationErrors>>

\* toggle(): if (readonly || disabled || loading) return
CheckboxToggle ==
  /\ cMounted
  /\ IF cReadonly \/ cLoading
       THEN /\ cOnChange' = <<>>
            /\ UNCHANGED cState
       ELSE SetCheckedByHandle(~checked)
  /\ cEvent' = "toggle"
  /\ cOutcome' = "done"
  /\ cBefore' = isIndeterminate
  /\ UNCHANGED <<cConfig, indeterminate, cRest>>

\* setChecked(newChecked), which has no guard.
CheckboxSetChecked(newChecked) ==
  /\ cMounted
  /\ SetCheckedByHandle(newChecked)
  /\ cEvent' = "setChecked"
  /\ cOutcome' = "done"
  /\ cBefore' = isIndeterminate
  /\ UNCHANGED <<cConfig, indeterminate, cRest>>

\* useEffect(() => { if (checkedProp !== undefined) setChecked(checkedProp) },
\* [checkedProp]), for a render whose checked prop is prop.
SyncedChecked(prop) == IF prop # checkedProp THEN prop ELSE checked

\* The host of a controlled checkbox renders it with checked = prop: the
\* value an onChange proposed, or the one it had when the host ignores the
\* proposal or renders for another reason.
HostChecked(prop) ==
  /\ cMounted
  /\ cControlled
  /\ checkedProp' = prop
  /\ checked' = SyncedChecked(prop)
  /\ cEvent' = "host"
  /\ cOutcome' = "none"
  /\ cBefore' = isIndeterminate
  /\ cOnChange' = <<>>
  /\ UNCHANGED <<isIndeterminate, cValidationErrors, cHasInteracted,
                 nativeIndeterminate, cFixed, indeterminate, cRest>>

\* The host renders the checkbox with indeterminate = ind.  The effect
\* setIsIndeterminate(indeterminate) runs when the prop (or, in DynCheckbox,
\* hasEnhancedFeatures, which here changes only with the prop) differs from
\* the render before, and in DynCheckbox sets the state only in enhanced mode.
CheckboxRender(ind) ==
  /\ cMounted
  /\ indeterminate' = ind
  /\ isIndeterminate' = IF ind # indeterminate /\ EnhancedWith(ind)
                          THEN ind
                          ELSE isIndeterminate
  /\ nativeIndeterminate' =
       NativeAfter(hasEnhancedFeatures, EnhancedWith(ind), isIndeterminate,
                   isIndeterminate', nativeIndeterminate)
  /\ cEvent' = "render"
  /\ cOutcome' = "none"
  /\ cBefore' = isIndeterminate
  /\ cOnChange' = <<>>
  /\ UNCHANGED <<checked, cHasInteracted, cValidationErrors, cConfig, cRest>>

\* The feedback state of the checkbox and the message its field container
\* gets.
checkboxHasError == Truthy(cError) \/ Len(cValidationErrors) > 0
checkboxHasWarning == Truthy(cWarning) /\ ~checkboxHasError
checkboxHasSuccess ==
  Truthy(cSuccess) /\ ~checkboxHasError /\ ~checkboxHasWarning
checkboxCurrentError ==
  IF Truthy(cError) THEN cError
  ELSE IF Len(cValidationErrors) > 0 THEN cValidationErrors[1] ELSE Undefined

getVisualState ==
  IF cLoading THEN "loading"
  ELSE IF hasEnhancedFeatures /\ isIndeterminate THEN "indeterminate"
  ELSE IF checked THEN "checked"
  ELSE "unchecked"

\* The checkbox after its mount: useState(indeterminate), and the effects of
\* the first render.
CStart ==
  /\ isIndeterminate = indeterminate
  /\ nativeIndeterminate = indeterminate
  /\ cValidationErrors = <<>>
  /\ cHasInteracted = FALSE
  /\ cEvent = "mount"
  /\ cBefore = indeterminate
  /\ cOnChange = <<>>
  /\ cOutcome = "none"

\* The checkbox as the other specifications leave it.
CIdle ==
  /\ cMounted = FALSE
  /\ cVariant = DynCheckbox
  /\ cLabel = FALSE
  /\ cValidation = <<>>
  /\ cLoading = FALSE
  /\ cReadonly = FALSE
  /\ cError = Undefined
  /\ cWarning = Undefined
  /\ cSuccess = Undefined
  /\ cControlled = FALSE
  /\ checkedProp = FALSE
  /\ indeterminate = FALSE
  /\ checked = FALSE
  /\ CStart

(* --------------------------- DynTableEnhanced --------------------------- *)
\* The columns of the table: name reads record.name, town reads record.city
\* through its dataIndex, city is not sortable.
Columns ==
  <<[key |-> "name", dataIndex |-> Undefined, sortable |-> TRUE],
    [key |-> "town", dataIndex |-> "city", sortable |-> TRUE],
    [key |-> "city", dataIndex |-> Undefined, sortable |-> FALSE]>>

NoColumn == [key |-> Null, dataIndex |-> Undefined, sortable |-> FALSE]

\* columns.find(col => col.key === key)
FindColumn(key) ==
  IF \E i \in 1..Len(Columns) : Columns[i].key = key
    THEN Columns[CHOOSE i \in 1..Len(Columns) :
                   /\ Columns[i].key = key
                   /\ \A j \in 1..(i - 1) : Columns[j].key # key]
    ELSE NoColumn

\* The value of a record in a column with a key as dataIndex, or none.
DerivedValue(column, record) ==
  IF column.dataIndex # Undefined THEN record[column.dataIndex]
  ELSE record[column.key]

\* rowSelection.getRowKey
getRowKey(record) == record.id

\* String.prototype.toLowerCase on the letters of the model.
ToLowerCase(c) == IF c = "A" THEN "a" ELSE IF c = "B" THEN "b" ELSE c
toLowerCase(v) == [i \in 1..Len(v) |-> ToLowerCase(v[i])]

\* String.prototype.includes
Includes(v, sub) ==
  \E i \in 1..(Len(v) + 1) :
    /\ i + Len(sub) - 1 <= Len(v)
    /\ SubSeq(v, i, i + Len(sub) - 1) = sub

\* The UTF-16 code unit of a letter of the model.
CharCode(c) ==
  CASE c = "A" -> 65
    [] c = "B" -> 66
    [] c = "a" -> 97
    [] c = "b" -> 98

\* a < b on strings: by code units, a proper prefix first.
RECURSIVE StringLess(_, _)
StringLess(a, b) ==
  IF b = <<>> THEN FALSE
  ELSE IF a = <<>> THEN TRUE
  ELSE IF Head(a) = Head(b) THEN StringLess(Tail(a), Tail(b))
  ELSE CharCode(Head(a)) < CharCode(Head(b))

\* A filter that compares the texts as they are.
KeepsRecordExactCase(key, filterValue, record) ==
  LET column == FindColumn(key)
  IN  IF column = NoColumn THEN TRUE
      ELSE Includes(DerivedValue(column, record), filterValue)

\* The predicate of result.filter for one entry of internalFilters.
KeepsRecord(key, filterValue, record) ==
  LET column == FindColumn(key)
  IN  IF column = NoColumn THEN TRUE
      ELSE Includes(toLowerCase(DerivedValue(column, record)),
                    toLowerCase(filterValue))

\* Object.entries(internalFilters), in insertion order.
FilterKeys == <<"name", "town", "ghost">>

\* Object.entries(internalFilters).forEach from entry i on.
RECURSIVE ApplyFilters(_, _)
ApplyFilters(result, i) ==
  IF i > Len(FilterKeys) THEN result
  ELSE LET key == FilterKeys[i]
           filterValue == internalFilters[key]
       IN  ApplyFilters(IF filterValue = <<>> THEN result
                        ELSE SelectSeq(result,
                               LAMBDA record : KeepsRecord(key, filterValue, record)),
                        i + 1)

\* The comparator given to result.sort.
CompareRecords(a, b, column, direction) ==
  LET aValue == DerivedValue(column, a)
      bValue == DerivedValue(column, b)
  IN  IF StringLess(aValue, bValue) THEN (IF direction = "asc" THEN -1 ELSE 1)
      ELSE IF StringLess(bValue, aValue) THEN (IF direction = "asc" THEN 1 ELSE -1)
      ELSE 0

Front(s) == SubSeq(s, 1, Len(s) - 1)

\* Array.prototype.sort is stable: a record goes behind the records that
\* compare lower or equal and came before it.
RECURSIVE InsertSorted(_, _, _, _)
InsertSorted(sorted, record, column, direction) ==
  IF sorted = <<>> \/ CompareRecords(Last(sorted), record, column, direction) <= 0
    THEN Append(sorted, record)
    ELSE Append(InsertSorted(Front(sorted), record, column, direction),
                Last(sorted))

RECURSIVE SortRecords(_, _, _)
SortRecords(result, column, direction) ==
  IF result = <<>> THEN <<>>
  ELSE InsertSorted(SortRecords(Front(result), column, direction),
                    Last(result), column, direction)

NoSort == [key |-> Null, direction |-> Null]

\* processedData: the filters, then the sort.
processedData ==
  LET filtered == ApplyFilters(dataSource, 1)
      column == FindColumn(internalSortConfig.key)
  IN  IF internalSortConfig # NoSort /\ column # NoColumn
        THEN SortRecords(filtered, column, internalSortConfig.direction)
        ELSE filtered

\* Array.prototype.slice(start, end)
Slice(s, start, end) ==
  LET from == IF start < 0 THEN (IF Len(s) + start < 0 THEN 0 ELSE Len(s) + start)
              ELSE IF start > Len(s) THEN Len(s) ELSE start
      to == IF end < 0 THEN (IF Len(s) + end < 0 THEN 0 ELSE Len(s) + end)
            ELSE IF end > Len(s) THEN Len(s) ELSE end
  IN  SubSeq(s, from + 1, to)

\* const start = (pagination.current - 1) * pagination.pageSize
PageStart(page) == (page.current - 1) * page.pageSize

paginatedData ==
  IF ~pagination.on THEN processedData
  ELSE LET start == PageStart(pagination)
           end == start + pagination.pageSize
       IN  Slice(processedData, start, end)

\* A page count that rounds down.
PageCountFloor(total, pageSize) == total \div pageSize

\* Math.ceil(pagination.total / pagination.pageSize)
PageCount(total, pageSize) ==
  IF total % pageSize = 0 THEN total \div pageSize ELSE total \div pageSize + 1

PreviousDisabled == pagination.current = 1
NextDisabled ==
  pagination.current >= PageCount(pagination.total, pagination.pageSize)

\* A header state that is checked as soon as a row is selected.
SelectionStateOf(selectedCount, totalCount) ==
  [checked |-> selectedCount > 0, indeterminate |-> FALSE]

\* The header state for the two counts.
SelectionStateFor(selectedCount, totalCount) ==
  [checked |-> selectedCount = totalCount,
   indeterminate |-> selectedCount > 0 /\ selectedCount < totalCount]

selectionState ==
  IF ~hasSelection \/ Len(dataSource) = 0
    THEN [checked |-> FALSE, indeterminate |-> FALSE]
    ELSE SelectionStateFor(Len(selectedRowKeys), Len(dataSource))

\* A sort that is ascending after every click.
NewSortAscending(columnKey, current) == [key |-> columnKey, direction |-> "asc"]

\* newSortConfig of handleSort
NewSortConfig(columnKey, current) ==
  [key |-> columnKey,
   direction |-> IF current.key = columnKey /\ current.direction = "asc"
                   THEN "desc" ELSE "asc"]

\* handleSort, from a click on the header of a sortable column.
SortClick(columnKey) ==
  /\ tMounted
  /\ FindColumn(columnKey).sortable
  /\ internalSortConfig' = NewSortConfig(columnKey, internalSortConfig)
  /\ tOnSortChange' = <<internalSortConfig'>>
  /\ tEvent' = "sort"
  /\ tClicked' = columnKey
  /\ tOnSelect' = <<>>
  /\ tOnPage' = <<>>
  /\ UNCHANGED <<tProps, internalFilters, tRest>>

\* A handler that only ever adds the key.
NewSelectedKeysAdded(keys, rowKey, selected) == Append(keys, rowKey)

\* newSelectedKeys of handleRowSelect
NewSelectedKeys(keys, rowKey, selected) ==
  IF selected THEN Append(keys, rowKey)
  ELSE SelectSeq(keys, LAMBDA key : key # rowKey)

\* dataSource.filter(record => newSelectedKeys.includes(getRowKey(record)))
SelectedRows(keys) ==
  SelectSeq(dataSource,
            LAMBDA record : \E i \in 1..Len(keys) : keys[i] = getRowKey(record))

\* handleRowSelect, from the checkbox of the row shown at index (from 1),
\* which shows isSelected and reports the opposite.
RowToggle(index) ==
  /\ tMounted
  /\ hasSelection
  /\ index \in 1..Len(paginatedData)
  /\ LET rowKey == getRowKey(paginatedData[index])
         isSelected == \E i \in 1..Len(selectedRowKeys) : selectedRowKeys[i] = rowKey
         newSelectedKeys == NewSelectedKeys(selectedRowKeys, rowKey, ~isSelected)
     IN  tOnSelect' = <<[keys |-> newSelectedKeys,
                         rows |-> SelectedRows(newSelectedKeys)]>>
  /\ tEvent' = "row"
  /\ tOnSortChange' = <<>>
  /\ tOnPage' = <<>>
  /\ UNCHANGED <<tProps, tState, tRest, tClicked>>

\* handleSelectAll, from the header checkbox.
HeaderToggle(selected) ==
  /\ tMounted
  /\ hasSelection
  /\ LET allRowKeys == [i \in 1..Len(dataSource) |-> getRowKey(dataSource[i])]
     IN  tOnSelect' = <<[keys |-> IF selected THEN allRowKeys ELSE <<>>,
                         rows |-> IF selected THEN dataSource ELSE <<>>]>>
  /\ tEvent' = IF selected THEN "all" ELSE "none"
  /\ tOnSortChange' = <<>>
  /\ tOnPage' = <<>>
  /\ UNCHANGED <<tProps, tState, tRest, tClicked>>

\* The host takes the selection that onSelect has just proposed.
HostSelect ==
  /\ tOnSelect # <<>>
  /\ selectedRowKeys' = tOnSelect[1].keys
  /\ tEvent' = "selected"
  /\ tOnSelect' = <<>>
  /\ UNCHANGED <<tMounted, dataSource, hasSelection, pagination, sortConfig,
                 filterConfig, tState, tOnSortChange, tOnPage, tRest, tClicked>>

\* The Previous and Next buttons: pagination.onChange(current -/+ 1, pageSize).
PageClick(step) ==
  /\ tMounted
  /\ pagination.on
  /\ IF step < 0 THEN ~PreviousDisabled ELSE ~NextDisabled
  /\ tOnPage' = <<[page |-> pagination.current + step,
                   pageSize |-> pagination.pageSize]>>
  /\ tEvent' = "page"
  /\ tOnSelect' = <<>>
  /\ tOnSortChange' = <<>>
  /\ UNCHANGED <<tProps, tState, tRest, tClicked>>

\* The host takes the page that pagination.onChange has just proposed.
HostPage ==
  /\ tOnPage # <<>>
  /\ pagination' = [pagination EXCEPT !.current = tOnPage[1].page,
                                      !.pageSize = tOnPage[1].pageSize]
  /\ tEvent' = "paged"
  /\ tOnPage' = <<>>
  /\ UNCHANGED <<tMounted, dataSource, hasSelection, selectedRowKeys,
                 sortConfig, filterConfig, tState, tOnSelect, tOnSortChange,
                 tRest, tClicked>>

\* The host renders the mounted table with other sortConfig and filterConfig
\* props: useState(sortConfig || null) and useState(filterConfig || {}) use
\* their argument for the first render only.
HostConfig(sort, filters) ==
  /\ tMounted
  /\ sort # sortConfig \/ filters # filterConfig
  /\ sortConfig' = sort
  /\ filterConfig' = filters
  /\ tEvent' = "config"
  /\ tOnSelect' = <<>>
  /\ tOnSortChange' = <<>>
  /\ tOnPage' = <<>>
  /\ UNCHANGED <<tMounted, dataSource, hasSelection, selectedRowKeys,
                 pagination, tState, tRest, tClicked>>

NoPagination == [on |-> FALSE, current |-> 1, pageSize |-> 1, total |-> 0]
NoFilters == [name |-> <<>>, town |-> <<>>, ghost |-> <<>>]

\* The table after its mount.
TStart ==
  /\ tEvent = "mount"
  /\ tClicked = Null
  /\ tOnSelect = <<>>
  /\ tOnSortChange = <<>>
  /\ tOnPage = <<>>

\* The table as the other specifications leave it.
TIdle ==
  /\ tMounted = FALSE
  /\ dataSource = <<>>
  /\ hasSelection = FALSE
  /\ selectedRowKeys = <<>>
  /\ pagination = NoPagination
  /\ sortConfig = NoSort
  /\ filterConfig = NoFilters
  /\ internalSortConfig = NoSort
  /\ internalFilters = NoFilters
  /\ TStart

\* ------------------------------------------------------------------
\* css-generator.ts: sanitizeTokenKey
\* ------------------------------------------------------------------
\* A key is a sequence of one-character strings.
KeyChars == {"a", "A", "1", "_", "-", ".", " "}

\* key.trim()
RECURSIVE TrimStart(_)
TrimStart(k) == IF k # <<>> /\ Head(k) = " " THEN TrimStart(Tail(k)) ELSE k
RECURSIVE TrimEnd(_)
TrimEnd(k) ==
  IF k # <<>> /\ k[Len(k)] = " " THEN TrimEnd(SubSeq(k, 1, Len(k) - 1)) ELSE k
TrimKey(k) == TrimEnd(TrimStart(k))

\* .replace(/[^a-z0-9_-]/g, '-')
ValidKeyChars == {"a", "b", "1", "_", "-"}
ReplaceInvalid(k) ==
  [i \in 1..Len(k) |-> IF k[i] \in ValidKeyChars THEN k[i] ELSE "-"]

\* A key whose dashes are left as they are.
CollapseDashesNot(k) == k

\* .replace(/-+/g, '-')
CollapseDashes(k) ==
  LET kept == {i \in 1..Len(k) : ~(k[i] = "-" /\ i > 1 /\ k[i - 1] = "-")}
      Nth(n) == CHOOSE i \in kept : Cardinality({j \in kept : j <= i}) = n
  IN  [n \in 1..Cardinality(kept) |-> k[Nth(n)]]

\* .replace(/^-|-$/g, ''): one dash at the start and one at the end.
StripEdgeDashes(k) ==
  LET rest == IF k # <<>> /\ Head(k) = "-" THEN Tail(k) ELSE k
  IN  IF rest # <<>> /\ rest[Len(rest)] = "-"
        THEN SubSeq(rest, 1, Len(rest) - 1)
        ELSE rest

sanitizeTokenKey(key) ==
  StripEdgeDashes(CollapseDashes(ReplaceInvalid(toLowerCase(TrimKey(key)))))

\* toCSSVars sanitizes a key; the history applies the function to its own
\* result as well.
SanitizeKey ==
  /\ Len(sanitized) < MaxSanitize
  /\ sanitized' = Append(sanitized,
                         sanitizeTokenKey(IF sanitized = <<>> THEN tokenKey
                                          ELSE sanitized[Len(sanitized)]))
  /\ UNCHANGED <<tokenKey, gRest>>

\* No key was sanitized.
GIdle ==
  /\ tokenKey = <<>>
  /\ sanitized = <<>>

\* ------------------------------------------------------------------
\* setup_dynui_enhanced.sh: the installer script
\* ------------------------------------------------------------------
\* A path is the sequence of its segments, relative to the directory the
\* script runs in.  The file system maps each path that exists to "dir" or
\* to the content of the file: "original" for what the tree held before the
\* first run, "enhanced" for the text the script writes there.
Core == <<"packages", "core">>
Src == Core \o <<"src">>
Tokens == <<"packages", "design-tokens">>
TokensBackup == <<"packages", "design-tokens-backup">>

IsPrefix(p, q) == Len(p) <= Len(q) /\ SubSeq(q, 1, Len(p)) = p
Parent(p) == SubSeq(p, 1, Len(p) - 1)
Ancestors(p) == {SubSeq(p, 1, n) : n \in 1..Len(p)}
IsDir(tree, p) == p = <<>> \/ (p \in DOMAIN tree /\ tree[p] = "dir")
IsFile(tree, p) == p \in DOMAIN tree /\ tree[p] # "dir"

\* mkdir -p path
MkdirP(tree, path) ==
  IF \E q \in Ancestors(path) : IsFile(tree, q)
  THEN tree
  ELSE [q \in DOMAIN tree \cup Ancestors(path) |->
          IF q \in DOMAIN tree THEN tree[q] ELSE "dir"]

\* cat > path: the redirection fails when the directory is missing.
WriteFile(tree, path, content) ==
  IF IsDir(tree, Parent(path)) /\ ~IsDir(tree, path)
  THEN [q \in DOMAIN tree \cup {path} |->
          IF q = path THEN content ELSE tree[q]]
  ELSE tree

\* if [ -f src ]; then cp src dst; fi
CopyFile(tree, src, dst) ==
  IF IsFile(tree, src) THEN WriteFile(tree, dst, tree[src]) ELSE tree

\* if [ -d src ]; then cp -r src/* dst/ 2>/dev/null || true; fi
CopyTree(tree, src, dst) ==
  LET entries == {p \in DOMAIN tree : IsPrefix(src, p) /\ Len(p) > Len(src)}
      Target(p) == dst \o SubSeq(p, Len(src) + 1, Len(p))
      targets == {Target(p) : p \in entries}
  IN IF IsDir(tree, src) /\ src # <<>> /\ IsDir(tree, dst)
     THEN [q \in DOMAIN tree \cup targets |->
             IF q \in targets
             THEN tree[CHOOSE p \in entries : Target(p) = q]
             ELSE tree[q]]
     ELSE tree

MkdirStep(path) == [op |-> "mkdir", src |-> <<>>, dst |-> path]
BackupStep(src, dst) == [op |-> "cp", src |-> src, dst |-> dst]
BackupTreeStep(src, dst) == [op |-> "cp -r", src |-> src, dst |-> dst]
WriteStep(path) == [op |-> "cat", src |-> <<>>, dst |-> path]

\* The commands of the script that touch the file system, in its order.
Script ==
  << MkdirStep(Src \o <<"ui-backup">>),
     MkdirStep(Src \o <<"hooks-backup">>),
     MkdirStep(Src \o <<"utils-backup">>),
     MkdirStep(Core \o <<"tests-backup">>),
     MkdirStep(TokensBackup),
     BackupStep(Src \o <<"ui", "dyn-input.tsx">>,
                Src \o <<"ui-backup", "dyn-input.tsx">>),
     BackupStep(Src \o <<"ui", "dyn-checkbox.tsx">>,
                Src \o <<"ui-backup", "dyn-checkbox.tsx">>),
     BackupStep(Src \o <<"ui", "dyn-table.tsx">>,
                Src \o <<"ui-backup", "dyn-table.tsx">>),
     BackupStep(Src \o <<"ui", "dyn-modal.tsx">>,
                Src \o <<"ui-backup", "dyn-modal.tsx">>),
     BackupStep(Src \o <<"utils", "classNames.ts">>,
                Src \o <<"utils-backup", "classNames.ts">>),
     BackupStep(Src \o <<"components", "index.ts">>,
                Src \o <<"components", "index-backup.ts">>),
     BackupTreeStep(Core \o <<"tests">>, Core \o <<"tests-backup">>),
     BackupTreeStep(Tokens, TokensBackup),
     MkdirStep(Src \o <<"ui">>),
     MkdirStep(Src \o <<"hooks">>),
     MkdirStep(Src \o <<"utils">>),
     MkdirStep(Core \o <<"tests", "components">>),
     MkdirStep(Tokens \o <<"src">>),
     MkdirStep(Tokens \o <<"build">>),
     WriteStep(Src \o <<"ui", "dyn-input.tsx">>),
     WriteStep(Src \o <<"ui", "dyn-checkbox.tsx">>),
     WriteStep(Src \o <<"hooks", "use-enhanced-validation.ts">>),
     WriteStep(Src \o <<"utils", "classNames.ts">>),
     WriteStep(Tokens \o <<"index.css">>),
     WriteStep(Src \o <<"components", "index.ts">>),
     WriteStep(Core \o <<"tests", "components", "dyn-input.test.tsx">>),
     WriteStep(Src \o <<"ui", "dyn-input.stories.tsx">>),
     WriteStep(<<"README.md">>) >>

ScriptRunning == pc \in 1..Len(Script)

\* The script is started in the project's directory.
ScriptStart ==
  /\ pc = 0
  /\ run < MaxRuns
  /\ run' = run + 1
  /\ pc' = 1
  /\ UNCHANGED <<fs, fsAfterRun, sRest>>

ScriptMkdir ==
  /\ ScriptRunning
  /\ Script[pc].op = "mkdir"
  /\ fs' = MkdirP(fs, Script[pc].dst)
  /\ pc' = pc + 1
  /\ UNCHANGED <<run, fsAfterRun, sRest>>

ScriptBackupFile ==
  /\ ScriptRunning
  /\ Script[pc].op = "cp"
  /\ fs' = CopyFile(fs, Script[pc].src, Script[pc].dst)
  /\ pc' = pc + 1
  /\ UNCHANGED <<run, fsAfterRun, sRest>>

ScriptBackupTree ==
  /\ ScriptRunning
  /\ Script[pc].op = "cp -r"
  /\ fs' = CopyTree(fs, Script[pc].src, Script[pc].dst)
  /\ pc' = pc + 1
  /\ UNCHANGED <<run, fsAfterRun, sRest>>

ScriptWrite ==
  /\ ScriptRunning
  /\ Script[pc].op = "cat"
  /\ fs' = WriteFile(fs, Script[pc].dst, "enhanced")
  /\ pc' = pc + 1
  /\ UNCHANGED <<run, fsAfterRun, sRest>>

\* The script ends after its last command.
ScriptExit ==
  /\ pc = Len(Script) + 1
  /\ pc' = 0
  /\ fsAfterRun' = Append(fsAfterRun, fs)
  /\ UNCHANGED <<fs, run, sRest>>

\* No script was run.
SIdle ==
  /\ fs = <<>>
  /\ pc = 0
  /\ run = 0
  /\ fsAfterRun = <<>>

FormIdle == IIdle /\ CIdle /\ TIdle /\ SIdle /\ GIdle

(* --------------------------- specifications --------------------------- *)
InitDebounce ==
  /\ now = 0
  /\ dbDelay \in Delays
  /\ DbInit
  /\ thLimit = 1
  /\ ThInit
  /\ VIdle
  /\ MIdle
  /\ FormIdle

NextDebounce ==
  \/ Tick
  \/ \E a \in Args : DebouncedInvoke(a)
  \/ DebounceTimerFire

SpecDebounce == InitDebounce /\ [][NextDebounce]_vars

InitThrottle ==
  /\ now = 0
  /\ thLimit \in Delays
  /\ ThInit
  /\ dbDelay = 1
  /\ DbInit
  /\ VIdle
  /\ MIdle
  /\ FormIdle

NextThrottle ==
  \/ Tick
  \/ \E a \in Args : ThrottledInvoke(a)
  \/ ThrottleTimerFire

SpecThrottle == InitThrottle /\ [][NextThrottle]_vars

InitValidation ==
  /\ now = 0
  /\ dbDelay = 1
  /\ DbInit
  /\ thLimit = 1
  /\ ThInit
  /\ value = ""
  /\ rules \in RuleLists
  /\ validateOnChange \in BOOLEAN
  /\ validateOnMount \in BOOLEAN
  /\ debounceMs \in Delays
  /\ stopOnFirstError \in BOOLEAN
  /\ VStart
  /\ MIdle
  /\ FormIdle

NextValidation ==
  \/ HookTick
  \/ Mount
  \/ \E v \in Values : ChangeValue(v)
  \/ Validate
  \/ AutoTimerFire
  \/ \E p \in BagToSet(vPending), o \in AsyncOutcomes : AsyncSettle(p, o)
  \/ \E e \in CustomErrorArgs : SetCustomError(e)
  \/ Reset

SpecValidation == InitValidation /\ [][NextValidation]_vars

InitModal ==
  /\ now = 0
  /\ dbDelay = 1
  /\ DbInit
  /\ thLimit = 1
  /\ ThInit
  /\ VIdle
  /\ animationDuration \in 0..MaxAnimationDuration
  /\ closeOnEscape \in BOOLEAN
  /\ closeOnBackdrop \in BOOLEAN
  /\ nFocusable \in 0..MaxFocusable
  /\ \E style \in BodyStyles :
       bodyOverflow = style[1] /\ sheetOverflow = style[2]
  /\ MStart
  /\ FormIdle

NextModal ==
  \/ ModalTick
  \/ \E o \in BOOLEAN : SetOpen(o)
  \/ ModalTimerFire
  \/ \E shift \in BOOLEAN : KeyTab(shift)
  \/ KeyEscape
  \/ \E target \in {"backdrop", "dialog"} : Click(target)
  \/ \E el \in OutsideElements \cup {Body} : UserFocus(el)

SpecModal == InitModal /\ [][NextModal]_vars

\* A modal whose host re-renders it with new callback identities.
NextModalRerender ==
  \/ ModalTick
  \/ \E o \in BOOLEAN : SetOpen(o)
  \/ ModalTimerFire
  \/ Rerender

SpecModalRerender == InitModal /\ [][NextModalRerender]_vars

\* The sequences over S of length at most n.
SeqsUpTo(S, n) == UNION {[1..k -> S] : k \in 0..n}

PhoneMask ==
  <<"(", "9", "9", "9", ")", " ", "9", "9", "9", "-", "9", "9", "9", "9">>
SsnMask == <<"9", "9", "9", "-", "9", "9", "-", "9", "9", "9", "9">>
MixedMask == <<"9", "*", "A">>
PhoneDigits == <<"1", "2", "3", "4", "5", "6", "7", "8", "9", "0">>
SsnTyped ==
  <<"a", "b", "c", "1", "2", "3", "d", "e", "f", "4", "5", "6", "g", "h", "i">>

\* Masks of digit placeholders, a separator and a literal digit, and the
\* masks of the documented examples.
Masks ==
  (SeqsUpTo({"9", "-", "1"}, MaxMaskLen) \ {<<>>})
    \cup {PhoneMask, SsnMask, MixedMask}

\* Texts of digits and a letter, and the texts of the documented examples.
Scripts == SeqsUpTo({"1", "2", "a"}, MaxTyped) \cup {PhoneDigits, SsnTyped}

InitInputMask ==
  /\ now = 0
  /\ dbDelay = 1
  /\ DbInit
  /\ thLimit = 1
  /\ ThInit
  /\ VIdle
  /\ MIdle
  /\ CIdle
  /\ TIdle
  /\ SIdle
  /\ GIdle
  /\ iMounted = TRUE
  /\ mask \in Masks
  /\ controlled \in BOOLEAN
  /\ iScript \in Scripts
  /\ validation = <<>>
  /\ iValidateOnChange = TRUE
  /\ validateOnBlur = TRUE
  /\ IPlain
  /\ INoFeedback
  /\ IStart

NextInputMask ==
  \/ InputFocus
  \/ TypeNext

SpecInputMask == InitInputMask /\ [][NextInputMask]_vars

InputChars == {"a", " "}
ErrorProps == {Undefined, "", "Bad value"}
WarningProps == {Undefined, "Check this"}
SuccessProps == {Undefined, "Looks good"}
Validations ==
  {<<>>, <<InputRequiredRule>>, <<InputRequiredRule, InputMinRule>>}

InitInput ==
  /\ now = 0
  /\ dbDelay = 1
  /\ DbInit
  /\ thLimit = 1
  /\ ThInit
  /\ VIdle
  /\ MIdle
  /\ CIdle
  /\ TIdle
  /\ SIdle
  /\ GIdle
  /\ iMounted = TRUE
  /\ mask = <<>>
  /\ controlled \in BOOLEAN
  /\ iScript = <<>>
  /\ validation \in Validations
  /\ iValidateOnChange \in BOOLEAN
  /\ validateOnBlur \in BOOLEAN
  /\ iError \in ErrorProps
  /\ iWarning \in WarningProps
  /\ iSuccess \in SuccessProps
  /\ IPlain
  /\ IStart

NextInput ==
  \/ InputFocus
  \/ InputBlur
  \/ \E c \in InputChars : TypeAny(c)
  \/ DeleteChar
  \/ \E e \in ErrorProps, w \in WarningProps, sc \in SuccessProps :
       SetFeedback(e, w, sc)

SpecInput == InitInput /\ [][NextInput]_vars

\* An input that may have a clean button, with or without a default value.
InitInputClean ==
  /\ now = 0
  /\ dbDelay = 1
  /\ DbInit
  /\ thLimit = 1
  /\ ThInit
  /\ VIdle
  /\ MIdle
  /\ CIdle
  /\ TIdle
  /\ SIdle
  /\ GIdle
  /\ iMounted = TRUE
  /\ mask = <<>>
  /\ controlled \in BOOLEAN
  /\ iScript = <<>>
  /\ validation \in Validations
  /\ iValidateOnChange \in BOOLEAN
  /\ validateOnBlur \in BOOLEAN
  /\ iVariant = DynInputEnhanced
  /\ showCleanButton \in BOOLEAN
  /\ iReadonly \in BOOLEAN
  /\ iDisabled \in BOOLEAN
  /\ INoFeedback
  /\ inputValue \in {<<>>, <<"a">>}
  /\ valueProp = inputValue
  /\ validationErrors = <<>>
  /\ isFocused = FALSE
  /\ hasInteracted = FALSE
  /\ iTyped = 0
  /\ iEvent = "mount"
  /\ onChangeCalls = <<>>
  /\ iCallOrder = <<>>
  /\ iOutcome = "none"

NextInputClean ==
  \/ InputFocus
  \/ InputBlur
  \/ \E c \in InputChars : TypeAny(c)
  \/ DeleteChar
  \/ CleanClick

SpecInputClean == InitInputClean /\ [][NextInputClean]_vars

InitCheckbox ==
  /\ now = 0
  /\ dbDelay = 1
  /\ DbInit
  /\ thLimit = 1
  /\ ThInit
  /\ VIdle
  /\ MIdle
  /\ IIdle
  /\ TIdle
  /\ SIdle
  /\ GIdle
  /\ cMounted = TRUE
  /\ cVariant \in {DynCheckbox, DynCheckboxEnhanced}
  /\ cLabel \in BOOLEAN
  /\ cValidation \in {<<>>, <<CheckboxRequiredRule>>}
  /\ cLoading \in BOOLEAN
  /\ cReadonly \in BOOLEAN
  /\ cError \in ErrorProps
  /\ cWarning \in WarningProps
  /\ cSuccess \in SuccessProps
  /\ cControlled = FALSE
  /\ checkedProp = FALSE
  /\ indeterminate \in BOOLEAN
  /\ checked \in BOOLEAN
  /\ CStart

NextCheckbox ==
  \/ CheckboxChange
  \/ CheckboxKeyDown
  \/ CheckboxBlur
  \/ \E ind \in BOOLEAN : CheckboxRender(ind)

SpecCheckbox == InitCheckbox /\ [][NextCheckbox]_vars

Names == << <<"b">>, <<"A", "b">>, <<"a">>, <<"B", "a">> >>
Cities == << <<"a">>, <<"a">>, <<"B">> >>

\* The i-th record of the data: its key is its number.
Row(i) ==
  [id |-> i,
   name |-> Names[((i - 1) % Len(Names)) + 1],
   city |-> Cities[((i - 1) % Len(Cities)) + 1]]

Rows(n) == [i \in 1..n |-> Row(i)]

\* The sequences without repetition of the row keys of data.
KeyLists(data) ==
  {keys \in SeqsUpTo({getRowKey(data[i]) : i \in 1..Len(data)}, Len(data)) :
     \A i, j \in 1..Len(keys) : i # j => keys[i] # keys[j]}

FilterConfigs ==
  {[name |-> n, town |-> t, ghost |-> <<"x">>] :
     n \in {<<>>, <<"B">>}, t \in {<<>>, <<"b">>}}

SortConfigs ==
  {NoSort, [key |-> "town", direction |-> "asc"],
   [key |-> "ghost", direction |-> "desc"]}

\* The pagination props for data of which matching records pass the filter.
Paginations(data, matching) ==
  {NoPagination} \cup
  {[on |-> TRUE, current |-> c, pageSize |-> ps, total |-> t] :
     c \in 1..MaxPage, ps \in 1..MaxPageSize, t \in {Len(data), matching}}

\* The example of 25 records in pages of 10.
InitTableExample ==
  /\ dataSource = Rows(25)
  /\ hasSelection = FALSE
  /\ selectedRowKeys = <<>>
  /\ internalFilters = NoFilters
  /\ internalSortConfig \in SortConfigs
  /\ \E c \in 1..3 :
       pagination = [on |-> TRUE, current |-> c, pageSize |-> 10,
                     total |-> 25]

\* A table with row selection, all on one page or in pages of MaxPageSize.
InitTableSelection ==
  /\ dataSource \in {Rows(n) : n \in 0..MaxRows}
  /\ hasSelection = TRUE
  /\ selectedRowKeys \in KeyLists(dataSource)
  /\ internalFilters \in FilterConfigs
  /\ internalSortConfig = NoSort
  /\ pagination \in {NoPagination,
                     [on |-> TRUE, current |-> 1, pageSize |-> MaxPageSize,
                      total |-> Len(dataSource)]}

\* A table without row selection.
InitTablePaged ==
  /\ dataSource \in {Rows(n) : n \in 0..MaxRows}
  /\ hasSelection = FALSE
  /\ selectedRowKeys = <<>>
  /\ internalFilters \in FilterConfigs
  /\ internalSortConfig \in SortConfigs
  /\ pagination \in Paginations(dataSource, Len(ApplyFilters(dataSource, 1)))

InitTable ==
  /\ now = 0
  /\ dbDelay = 1
  /\ DbInit
  /\ thLimit = 1
  /\ ThInit
  /\ VIdle
  /\ MIdle
  /\ IIdle
  /\ CIdle
  /\ SIdle
  /\ GIdle
  /\ tMounted = TRUE
  /\ InitTableSelection \/ InitTablePaged \/ InitTableExample
  /\ sortConfig = internalSortConfig
  /\ filterConfig = internalFilters
  /\ TStart

NextTable ==
  \/ \E i \in 1..Len(Columns) : SortClick(Columns[i].key)
  \/ \E index \in 1..MaxRows : RowToggle(index)
  \/ \E selected \in BOOLEAN : HeaderToggle(selected)
  \/ HostSelect
  \/ \E step \in {-1, 1} : PageClick(step)
  \/ HostPage

SpecTable == InitTable /\ [][NextTable]_vars

\* A table whose host changes the sortConfig and filterConfig props.
InitTableConfig ==
  /\ now = 0
  /\ dbDelay = 1
  /\ DbInit
  /\ thLimit = 1
  /\ ThInit
  /\ VIdle
  /\ MIdle
  /\ IIdle
  /\ CIdle
  /\ SIdle
  /\ GIdle
  /\ tMounted = TRUE
  /\ InitTablePaged
  /\ sortConfig = internalSortConfig
  /\ filterConfig = internalFilters
  /\ TStart

NextTableConfig ==
  \/ \E i \in 1..Len(Columns) : SortClick(Columns[i].key)
  \/ \E sort \in SortConfigs, filters \in FilterConfigs : HostConfig(sort, filters)

SpecTableConfig == InitTableConfig /\ [][NextTableConfig]_vars

\* The files of the project that the script backs up, and a test and a token
\* file of the project's own that the directory backups pick up.
OriginalFiles ==
  { Src \o <<"ui", "dyn-input.tsx">>,
    Src \o <<"ui", "dyn-checkbox.tsx">>,
    Src \o <<"ui", "dyn-table.tsx">>,
    Src \o <<"ui", "dyn-modal.tsx">>,
    Src \o <<"utils", "classNames.ts">>,
    Src \o <<"components", "index.ts">>,
    Core \o <<"tests", "button.test.tsx">>,
    Tokens \o <<"tokens.json">> }

\* Directories the project may have before the first run.
OriginalDirs == {Src \o <<"components">>, Core \o <<"tests">>, Tokens}

\* The tree that holds the given files and directories.
TreeOf(files, dirs) ==
  [q \in UNION {Ancestors(p) : p \in files \cup dirs} |->
     IF q \in files THEN "original" ELSE "dir"]

\* The project before the script is run for the first time.
InitInstaller ==
  /\ now = 0
  /\ dbDelay = 1
  /\ DbInit
  /\ thLimit = 1
  /\ ThInit
  /\ VIdle
  /\ MIdle
  /\ IIdle
  /\ CIdle
  /\ TIdle
  /\ GIdle
  /\ \E files \in SUBSET OriginalFiles, dirs \in SUBSET OriginalDirs :
       fs = TreeOf(files, dirs)
  /\ pc = 0
  /\ run = 0
  /\ fsAfterRun = <<>>

NextInstaller ==
  \/ ScriptStart
  \/ ScriptMkdir
  \/ ScriptBackupFile
  \/ ScriptBackupTree
  \/ ScriptWrite
  \/ ScriptExit

SpecInstaller == InitInstaller /\ [][NextInstaller]_vars

\* The files the script writes with cat >.
WrittenFiles == {Script[i].dst : i \in {j \in 1..Len(Script) : Script[j].op = "cat"}}

\* The content a file of the project has before the first run, told apart
\* from the content of every other file by the file's name.
OwnContent(path) == path[Len(path)]

\* A project that has some of the files the script writes.
InitInstallerOwn ==
  /\ now = 0
  /\ dbDelay = 1
  /\ DbInit
  /\ thLimit = 1
  /\ ThInit
  /\ VIdle
  /\ MIdle
  /\ IIdle
  /\ CIdle
  /\ TIdle
  /\ GIdle
  /\ \E files \in SUBSET WrittenFiles :
       fs = [q \in UNION {Ancestors(f) : f \in files} |->
               IF q \in files THEN OwnContent(q) ELSE "dir"]
  /\ pc = 0
  /\ run = 0
  /\ fsAfterRun = <<>>

SpecInstallerOwn == InitInstallerOwn /\ [][NextInstaller]_vars

\* The keys sanitizeTokenKey is given.
RECURSIVE KeysOfLength(_)
KeysOfLength(n) ==
  IF n = 0 THEN {<<>>}
  ELSE {Append(k, c) : k \in KeysOfLength(n - 1), c \in KeyChars}

InitTokens ==
  /\ now = 0
  /\ dbDelay = 1
  /\ DbInit
  /\ thLimit = 1
  /\ ThInit
  /\ VIdle
  /\ MIdle
  /\ IIdle
  /\ CIdle
  /\ TIdle
  /\ SIdle
  /\ tokenKey \in UNION {KeysOfLength(n) : n \in 0..MaxKeyLen}
  /\ sanitized = <<>>

NextTokens == SanitizeKey

SpecTokens == InitTokens /\ [][NextTokens]_vars

\* A masked DynInputEnhanced with a clean button whose host also uses
\* setValue().
SetValueArgs == {<<>>, <<"1">>, <<"1", "-">>, <<"a">>}

InitInputMaskValue ==
  /\ now = 0
  /\ dbDelay = 1
  /\ DbInit
  /\ thLimit = 1
  /\ ThInit
  /\ VIdle
  /\ MIdle
  /\ CIdle
  /\ TIdle
  /\ SIdle
  /\ GIdle
  /\ iMounted = TRUE
  /\ iVariant = DynInputEnhanced
  /\ mask \in {<<"9", "-", "9">>, <<"(", "9", ")">>}
  /\ controlled \in BOOLEAN
  /\ iScript \in SeqsUpTo({"1", "2", "a"}, MaxTyped)
  /\ validation = <<>>
  /\ iValidateOnChange = TRUE
  /\ validateOnBlur = TRUE
  /\ showCleanButton = TRUE
  /\ iReadonly = FALSE
  /\ iDisabled = FALSE
  /\ INoFeedback
  /\ IStart

NextInputMaskValue ==
  \/ InputFocus
  \/ TypeNext
  \/ DeleteChar
  \/ CleanClick
  \/ \E v \in SetValueArgs : InputSetValue(v)

SpecInputMaskValue == InitInputMaskValue /\ [][NextInputMaskValue]_vars

\* DynInputEnhanced with rules, with and without a mask.
InitInputValidate ==
  /\ now = 0
  /\ dbDelay = 1
  /\ DbInit
  /\ thLimit = 1
  /\ ThInit
  /\ VIdle
  /\ MIdle
  /\ CIdle
  /\ TIdle
  /\ SIdle
  /\ GIdle
  /\ iMounted = TRUE
  /\ mask \in {<<>>, <<"-", "9">>, <<"9", "-", "9">>}
  /\ controlled \in BOOLEAN
  /\ iScript \in SeqsUpTo({"1", " "}, MaxTyped)
  /\ validation \in {<<InputRequiredRule, InputMinRule>>,
                     <<InputMinRule, InputRequiredRule>>}
  /\ iValidateOnChange \in BOOLEAN
  /\ validateOnBlur \in BOOLEAN
  /\ IPlain
  /\ INoFeedback
  /\ IStart

NextInputValidate ==
  \/ InputFocus
  \/ InputBlur
  \/ TypeNext
  \/ DeleteChar

SpecInputValidate == InitInputValidate /\ [][NextInputValidate]_vars

\* Either checkbox with a checked prop.
InitCheckboxControlled ==
  /\ now = 0
  /\ dbDelay = 1
  /\ DbInit
  /\ thLimit = 1
  /\ ThInit
  /\ VIdle
  /\ MIdle
  /\ IIdle
  /\ TIdle
  /\ SIdle
  /\ GIdle
  /\ cMounted = TRUE
  /\ cVariant \in {DynCheckbox, DynCheckboxEnhanced}
  /\ cLabel \in BOOLEAN
  /\ cValidation \in {<<>>, <<CheckboxRequiredRule>>}
  /\ cLoading \in BOOLEAN
  /\ cReadonly \in BOOLEAN
  /\ cError = Undefined
  /\ cWarning = Undefined
  /\ cSuccess = Undefined
  /\ cControlled = TRUE
  /\ checkedProp \in BOOLEAN
  /\ checked = checkedProp
  /\ indeterminate = FALSE
  /\ CStart

NextCheckboxControlled ==
  \/ CheckboxChange
  \/ CheckboxKeyDown
  \/ CheckboxToggle
  \/ \E c \in BOOLEAN : CheckboxSetChecked(c)
  \/ \E prop \in BOOLEAN : HostChecked(prop)

SpecCheckboxControlled ==
  InitCheckboxControlled /\ [][NextCheckboxControlled]_vars

\* The hook with rules that lack their validator function.
BareRuleLists ==
  { <<BareCustomRule>>,
    <<BareAsyncRule>>,
    <<RequiredRule, BareAsyncRule>>,
    <<BareCustomRule, AsyncRule>> }

InitHookRules ==
  /\ now = 0
  /\ dbDelay = 1
  /\ DbInit
  /\ thLimit = 1
  /\ ThInit
  /\ value = ""
  /\ rules \in BareRuleLists
  /\ validateOnChange \in BOOLEAN
  /\ validateOnMount \in BOOLEAN
  /\ debounceMs \in Delays
  /\ stopOnFirstError \in BOOLEAN
  /\ VStart
  /\ MIdle
  /\ FormIdle

SpecHookRules == InitHookRules /\ [][NextValidation]_vars

\* Either input component with custom and async rules.
InputRuleLists ==
  { <<>>,
    <<InputBareCustomRule>>,
    <<InputBareAsyncRule>>,
    <<InputAsyncRule>>,
    <<InputThrowingRule>>,
    <<InputRequiredRule, InputCustomRule>>,
    <<InputRequiredRule, InputThrowingRule>> }

InitInputRules ==
  /\ now = 0
  /\ dbDelay = 1
  /\ DbInit
  /\ thLimit = 1
  /\ ThInit
  /\ VIdle
  /\ MIdle
  /\ CIdle
  /\ TIdle
  /\ SIdle
  /\ GIdle
  /\ iMounted = TRUE
  /\ iVariant \in {DynInput, DynInputEnhanced}
  /\ mask = <<>>
  /\ controlled \in BOOLEAN
  /\ iScript = <<>>
  /\ validation \in InputRuleLists
  /\ iValidateOnChange \in BOOLEAN
  /\ validateOnBlur \in BOOLEAN
  /\ showCleanButton = FALSE
  /\ iReadonly = FALSE
  /\ iDisabled = FALSE
  /\ INoFeedback
  /\ IStart

NextInputRules ==
  \/ InputFocus
  \/ InputBlur
  \/ \E c \in InputChars : TypeAny(c)
  \/ DeleteChar
  \/ InputValidate

\* Either checkbox component with custom rules.
CheckboxRuleLists ==
  { <<>>,
    <<CheckboxBareCustomRule>>,
    <<CheckboxThrowingRule>>,
    <<CheckboxRequiredRule, CheckboxCustomRule>>,
    <<CheckboxRequiredRule, CheckboxThrowingRule>> }

InitCheckboxRules ==
  /\ now = 0
  /\ dbDelay = 1
  /\ DbInit
  /\ thLimit = 1
  /\ ThInit
  /\ VIdle
  /\ MIdle
  /\ IIdle
  /\ TIdle
  /\ SIdle
  /\ GIdle
  /\ cMounted = TRUE
  /\ cVariant \in {DynCheckbox, DynCheckboxEnhanced}
  /\ cLabel \in BOOLEAN
  /\ cValidation \in CheckboxRuleLists
  /\ cLoading = FALSE
  /\ cReadonly \in BOOLEAN
  /\ cError = Undefined
  /\ cWarning = Undefined
  /\ cSuccess = Undefined
  /\ cControlled = FALSE
  /\ checkedProp = FALSE
  /\ indeterminate = FALSE
  /\ checked \in BOOLEAN
  /\ CStart

NextCheckboxRules ==
  \/ CheckboxChange
  \/ CheckboxKeyDown
  \/ CheckboxBlur
  \/ CheckboxValidate

\* The inline validators of the four components.
InitRules == InitInputRules \/ InitCheckboxRules

NextRules == NextInputRules \/ NextCheckboxRules

SpecRules == InitRules /\ [][NextRules]_vars

\* Either control, mounted on its own.
InitControls == InitInput \/ InitCheckbox

NextControls == NextInput \/ NextCheckbox

SpecControls == InitControls /\ [][NextControls]_vars

(* ------------------------- debounce / throttle ------------------------ *)
\* Every invocation came less than d after the previous one.
Burst(inv, d) == \A i \in 2..Len(inv) : inv[i].at - inv[i - 1].at < d

\* Every invocation came less than d after the first one.
WithinWindow(inv, d) == \A i \in 1..Len(inv) : inv[i].at - inv[1].at < d

\* C2: N >= 1 invocations of a debounced function, each less than delay after
\* the previous one, call func exactly once: not while the last timer is
\* pending, once when it has run, at delay after the last invocation and with
\* the last invocation's arguments.
C2_DebounceOnceWithLastArgs ==
  (Len(dbInvoked) >= 1 /\ Burst(dbInvoked, dbDelay)) =>
    /\ Len(dbCalls) <= 1
    /\ \A i \in 1..Len(dbCalls) :
         /\ dbCalls[i].args = Last(dbInvoked).args
         /\ dbCalls[i].at = Last(dbInvoked).at + dbDelay
    /\ (dbTimers = {}) <=> (Len(dbCalls) = 1)
    /\ Cardinality(dbTimers) <= 1
    /\ now > Last(dbInvoked).at + dbDelay => Len(dbCalls) = 1

C2_Witness ==
  /\ Len(dbInvoked) >= 3
  /\ Burst(dbInvoked, dbDelay)
  /\ dbInvoked[1].args # Last(dbInvoked).args
  /\ dbInvoked[1].at < Last(dbInvoked).at
  /\ Len(dbCalls) = 1

\* C3 as stated: N >= 1 invocations of a throttled function, each less than
\* limit after the previous one, call func exactly once, on the first
\* invocation and with its arguments.
C3_ThrottleOnceInBurst ==
  (Len(thInvoked) >= 1 /\ Burst(thInvoked, thLimit)) =>
    thCalls = <<thInvoked[1]>>

\* C3 amended: N >= 1 invocations of a throttled function, each less than
\* limit after the FIRST one, call func exactly once, synchronously on the
\* first invocation and with its arguments; the others are dropped and are
\* not executed later.
C3_ThrottleOnceInWindow ==
  (Len(thInvoked) >= 1 /\ WithinWindow(thInvoked, thLimit)) =>
    thCalls = <<thInvoked[1]>>

C3_Witness ==
  /\ Len(thInvoked) >= 3
  /\ WithinWindow(thInvoked, thLimit)
  /\ thInvoked[2].args # thInvoked[1].args
  /\ thTimers = {}
  /\ now > thInvoked[1].at + thLimit
  /\ thCalls = <<thInvoked[1]>>

(* ------------------------ useEnhancedValidation ----------------------- *)
\* C1: with validateOnChange on and a validation already done, k >= 2 value
\* changes, each less than debounceMs after the previous one, lead to at most
\* one automatic validate() pass, and that pass evaluates the final value.
C1_AtMostOneAutoPass ==
  (/\ validateOnChange
   /\ Len(vChanges) >= 2
   /\ \A i \in 1..Len(vChanges) : vChanges[i].hv
   /\ Burst(vChanges, debounceMs)) =>
    /\ Len(vChangePasses) <= 1
    /\ \A i \in 1..Len(vChangePasses) :
         vChangePasses[i] = Last(vChanges).value

\* C10: while a custom error set by setCustomError(message) is not cleared,
\* the returned errors are non-empty and start with that message, errorMessage
\* is that message, hasError is true and isValid is false.
C10_CustomErrorFirst ==
  vCustomSet # Undefined =>
    /\ Len(AllErrors) >= 1
    /\ AllErrors[1] = vCustomSet
    /\ ErrorMessage = vCustomSet
    /\ HasError
    /\ ~IsValid

C10_Witness ==
  /\ vCustomSet = "E1"
  /\ hasValidated
  /\ ~isValidating
  /\ Len(errors) >= 1
  /\ errors[1] # vCustomSet

\* The timers a step left pending that were not pending before it.
NewTimers == vTimers' \ vTimers

\* A value change schedules an automatic pass: one new timer, debounceMs
\* from now, that validates the new value.
ChangeSchedules ==
  \E t \in NewTimers :
    /\ NewTimers = {t}
    /\ t.due = now + debounceMs
    /\ t.value = value'
    /\ t.cause = "change"

\* C11 as stated: with validateOnMount false, value changes schedule and run
\* no automatic pass until a manual validate() call has completed; once one
\* has, every value change schedules an automatic pass debounceMs later when
\* validateOnChange is set.
C11_AutoAfterManualValidate ==
  /\ []((~validateOnMount /\ ~vManualDone) =>
          /\ \A t \in vTimers : t.cause # "change"
          /\ vChangePasses = <<>>)
  /\ [][(value' # value /\ vManualDone /\ validateOnChange) =>
          ChangeSchedules]_vars

\* C11 amended: a value change schedules no automatic pass while the
\* has-validated flag is down, and schedules one, debounceMs later, while the
\* flag is up and validateOnChange is set.  The flag goes up when a validate()
\* pass that had a rule or a custom error to check ends, or when
\* setCustomError is given a non-empty message; it goes down on reset().
C11_AutoWhileHasValidated ==
  /\ [][value' # value =>
          IF validateOnChange /\ hasValidated
            THEN ChangeSchedules /\ vTimers \subseteq vTimers'
            ELSE vTimers' = vTimers]_vars
  /\ [][(hasValidated' /\ ~hasValidated) =>
          \/ /\ vEnded'.kind = "resolved"
             /\ Len(rules) > 0 \/ Truthy(vEnded'.ce)
          \/ /\ vEnded' = NoPass
             /\ Truthy(customError')
             /\ vCustomSet' = customError']_vars
  /\ [][(hasValidated /\ ~hasValidated') =>
          /\ vEnded' = ResetCall
          /\ errors' = <<>>
          /\ customError' = Undefined]_vars
  /\ [][(vEnded'.kind = "resolved" /\ (Len(rules) > 0 \/ Truthy(vEnded'.ce))) =>
          hasValidated']_vars

C11_Witness ==
  /\ ~validateOnMount
  /\ validateOnChange
  /\ vManualDone
  /\ Len(rules) > 0
  /\ Len(vChanges) = 1
  /\ vChanges[1].hv
  /\ \E t \in vTimers :
       t.cause = "change" /\ t.value = value /\ t.due = now + debounceMs

\* The check of an evaluated rule did not return true.
Failing(ev) == ev.outcome \in {"false", "throws", "rejects"}

\* The messages of the failing rules among evals, in the order of evals.
FailureMessages(evals) ==
  LET failing == SelectSeq(evals, Failing)
  IN  [j \in 1..Len(failing) |-> rules[failing[j].idx].message]

\* The custom error a pass puts in front of its rule messages.
CapturedCustom(ce) == IF Truthy(ce) THEN <<ce>> ELSE <<>>

\* C12: a validate() pass evaluates the rules one at a time in declaration
\* order, from the first, and stores the messages of the failing ones in that
\* order (after the custom error it captured); with stopOnFirstError nothing
\* is evaluated after the first failing rule and at most one message comes
\* from a rule; otherwise every rule is evaluated.
C12_RulesInOrder ==
  vEnded.kind = "resolved" =>
    /\ \A j \in 1..Len(vEnded.evals) : vEnded.evals[j].idx = j
    /\ Len(vEnded.evals) <= Len(rules)
    /\ errors = CapturedCustom(vEnded.ce) \o FailureMessages(vEnded.evals)
    /\ stopOnFirstError =>
         /\ \A j \in 1..(Len(vEnded.evals) - 1) : ~Failing(vEnded.evals[j])
         /\ Len(errors) - Len(CapturedCustom(vEnded.ce)) <= 1
    /\ (~stopOnFirstError \/ \A j \in 1..Len(vEnded.evals) : ~Failing(vEnded.evals[j])) =>
         Len(vEnded.evals) = Len(rules)

C12_Witness ==
  /\ vEnded.kind = "resolved"
  /\ stopOnFirstError
  /\ rules = <<RequiredRule, CustomRule>>
  /\ value = ""
  /\ Len(vEnded.evals) = 1
  /\ errors = <<RequiredRule.message>>

\* The check of an evaluated rule threw, or its promise rejected.
Threw(ev) == ev.outcome \in {"throws", "rejects"}

\* C13: no validate() pass throws or rejects; when a pass ends in which a
\* customValidator threw or an asyncValidator threw or rejected, that rule's
\* message is among the stored errors, every rule has been evaluated unless
\* stopOnFirstError is set, and isValidating is false.
C13_ThrowingValidatorFails ==
  /\ vEnded.kind # "rejected"
  /\ \A j \in 1..Len(rules) :
       (/\ vEnded.kind = "resolved"
        /\ j <= Len(vEnded.evals)
        /\ Threw(vEnded.evals[j])) =>
         /\ \E k \in 1..Len(errors) : errors[k] = rules[j].message
         /\ Len(SelectSeq(errors, LAMBDA e : e = rules[j].message)) = 1
         /\ ~stopOnFirstError => Len(vEnded.evals) = Len(rules)
         /\ stopOnFirstError => Len(vEnded.evals) = j
         /\ ~isValidating

C13_Witness ==
  /\ vEnded.kind = "resolved"
  /\ rules = <<ThrowingRule, RequiredRule>>
  /\ ~stopOnFirstError
  /\ vEnded.evals = <<[idx |-> 1, outcome |-> "throws"],
                      [idx |-> 2, outcome |-> "false"]>>
  /\ errors = <<ThrowingRule.message, RequiredRule.message>>
  /\ ~isValidating

\* C14: right after reset() the stored errors are empty, the custom error is
\* absent, isValidating is false, hasError is false, isValid is true and the
\* has-validated flag is false; from then until validate() is called again no
\* value change schedules an automatic pass.
C14_ResetQuiets ==
  /\ [](vEnded = ResetCall =>
          /\ errors = <<>>
          /\ AllErrors = <<>>
          /\ customError = Undefined
          /\ ~isValidating
          /\ ~HasError
          /\ IsValid
          /\ ~hasValidated)
  /\ [][(vAfterReset /\ value' # value) => vTimers' = vTimers]_vars

(* -------------------------- DynInputEnhanced -------------------------- *)
\* A mask of '9' placeholders and literals that are not digits.
DigitMask(m) ==
  \A i \in 1..Len(m) : m[i] = "9" \/ m[i] \notin Digits \cup MaskPlaceholders

DigitString(t) == \A i \in 1..Len(t) : t[i] \in Digits

\* The number of placeholders among the first i characters of a mask.
PlaceholdersUpTo(m, i) == Cardinality({q \in 1..i : m[q] = "9"})

\* The position of the n-th placeholder of a mask, 0 for n = 0.
PlaceholderAt(m, n) ==
  IF n = 0 THEN 0
  ELSE CHOOSE p \in 1..Len(m) : m[p] = "9" /\ PlaceholdersUpTo(m, p) = n

\* The first cut characters of a mask, its placeholders filled left to right
\* with digits.
FilledUpTo(m, digits, cut) ==
  [i \in 1..cut |-> IF m[i] = "9" THEN digits[PlaceholdersUpTo(m, i)] ELSE m[i]]

\* The typed digits that a digit mask has room for.
ConsumedDigits ==
  LET holds == PlaceholdersUpTo(mask, Len(mask))
  IN  SubSeq(iScript, 1, IF iTyped < holds THEN iTyped ELSE holds)

\* C15: for a mask of '9' placeholders and non-digit literals and digits typed
\* one at a time, the input shows the mask filled left to right with the
\* typed digits and cut off after the last consumed digit (the literals that
\* end the mask may show once more digits are typed than it holds), and
\* onChange reports exactly the consumed digits; mask "(999) 999-9999" and
\* digits "1234567890" show "(123) 456-7890" and report "1234567890".
C15_MaskRoundTrip ==
  (DigitMask(mask) /\ DigitString(iScript)) =>
    /\ \/ inputValue =
            FilledUpTo(mask, ConsumedDigits,
                       PlaceholderAt(mask, Len(ConsumedDigits)))
       \/ /\ iTyped > Len(ConsumedDigits)
          /\ inputValue = FilledUpTo(mask, ConsumedDigits, Len(mask))
    /\ iEvent = "type" => onChangeCalls = <<ConsumedDigits>>
    /\ (mask = PhoneMask /\ iScript = PhoneDigits /\ iTyped = Len(PhoneDigits)) =>
         /\ inputValue = <<"(", "1", "2", "3", ")", " ", "4", "5", "6", "-",
                           "7", "8", "9", "0">>
         /\ onChangeCalls = <<PhoneDigits>>

\* The literal characters of a mask.
MaskLiterals(m) == {m[i] : i \in 1..Len(m)} \ MaskPlaceholders

\* C16: with a string mask, a typed character that is not a digit does not
\* change the displayed value, and the displayed value holds only digits and
\* literals of the mask; what is consumed and reported is no longer than the
\* number of placeholders and the displayed value no longer than the mask;
\* mask "999-99-9999" and typed "abc123def456ghi" show "123-45-6".
C16_MaskFilters ==
  /\ [][(iTyped' = iTyped + 1 /\ iScript[iTyped'] \notin Digits) =>
          inputValue' = inputValue]_vars
  /\ [](/\ \A i \in 1..Len(inputValue) :
             inputValue[i] \in Digits \cup MaskLiterals(mask)
        /\ Len(inputValue) <= Len(mask)
        /\ \A k \in 1..Len(onChangeCalls) :
             Len(onChangeCalls[k]) <= Len(SelectSeq(mask, LAMBDA c : c \in MaskPlaceholders))
        /\ (mask = SsnMask /\ iScript = SsnTyped /\ iTyped = Len(SsnTyped)) =>
             inputValue = <<"1", "2", "3", "-", "4", "5", "-", "6">>)

\* C17: with the single rule `required` and validateOnBlur, a blur leaves the
\* rule's message as the only validation error, and as the message shown when
\* no error prop is given, if the value is empty or whitespace, and leaves no
\* validation error if the value has a non-whitespace character, whatever was
\* shown before.
C17_RequiredOnBlur ==
  [][(validation = <<InputRequiredRule>> /\ validateOnBlur /\ iEvent' = "blur") =>
       IF InputRequired(inputValue)
         THEN /\ validationErrors' = <<>>
              /\ ~Truthy(iError) => (currentError' = Undefined /\ ~hasError')
         ELSE /\ validationErrors' = <<InputRequiredRule.message>>
              /\ ~Truthy(iError) =>
                   (currentError' = InputRequiredRule.message /\ hasError')]_vars

\* A whitespace-only value was blurred and the rule's message is shown.
C17_Witness ==
  /\ validation = <<InputRequiredRule>>
  /\ validateOnBlur
  /\ iEvent = "blur"
  /\ inputValue = <<" ">>
  /\ currentError = InputRequiredRule.message

\* A prop that holds a non-empty message.
Given(prop) == prop \notin {Undefined, ""}

\* Precedence among the feedback flags e, w, sc and the message shown msg of
\* a control whose props are errorProp, warningProp, successProp and whose
\* validation error list is errs.
Precedence(e, w, sc, msg, errorProp, warningProp, successProp, errs) ==
  /\ ~(e /\ w) /\ ~(e /\ sc) /\ ~(w /\ sc)
  /\ e <=> (Given(errorProp) \/ errs # <<>>)
  /\ w <=> (Given(warningProp) /\ ~e)
  /\ sc <=> (Given(successProp) /\ ~e /\ ~w)
  /\ msg = IF Given(errorProp) THEN errorProp
           ELSE IF errs # <<>> THEN Head(errs) ELSE Undefined

\* C18: in the input and in the checkbox at most one of error, warning and
\* success is active; error is active iff the error prop is non-empty or
\* there is a validation error, warning iff a warning is given and error is
\* not active, success iff a success is given and neither of the others is
\* active; the message shown is the error prop if given, else the first
\* validation error.
C18_FeedbackPrecedence ==
  /\ iMounted =>
       Precedence(hasError, hasWarning, hasSuccess, currentError, iError,
                  iWarning, iSuccess, validationErrors)
  /\ cMounted =>
       Precedence(checkboxHasError, checkboxHasWarning, checkboxHasSuccess,
                  checkboxCurrentError, cError, cWarning, cSuccess,
                  cValidationErrors)

\* A validation error of the input is shown although a warning and a success
\* message are given.
C18_Witness ==
  /\ iMounted
  /\ ~Given(iError)
  /\ validationErrors # <<>>
  /\ Given(iWarning)
  /\ Given(iSuccess)
  /\ hasError /\ ~hasWarning /\ ~hasSuccess
  /\ currentError = Head(validationErrors)

\* C26: the clean button is rendered iff showCleanButton is set, the value is
\* not empty and the input is neither readonly nor disabled; it is activated
\* only while rendered, and its activation leaves the value and the
\* validation error list empty and has called onChange('') and then
\* onClean(), once each.
C26_CleanButton ==
  /\ [](showCleanAction <=>
          (showCleanButton /\ Len(inputValue) > 0 /\ ~iReadonly /\ ~iDisabled))
  /\ [][iEvent' = "clean" =>
          /\ showCleanButton /\ Len(inputValue) > 0 /\ ~iReadonly /\ ~iDisabled
          /\ inputValue' = <<>>
          /\ validationErrors' = <<>>
          /\ onChangeCalls' = << <<>> >>
          /\ iCallOrder' = <<"onChange", "onClean">>]_vars

\* The clean button has emptied a required input and no error is shown.
C26_Witness ==
  /\ iEvent = "clean"
  /\ validation = <<InputRequiredRule>>
  /\ inputValue = <<>>
  /\ validationErrors = <<>>
  /\ iCallOrder = <<"onChange", "onClean">>

(* -------------------- DynCheckbox / DynCheckboxEnhanced ------------------- *)
\* The step is a user toggle: a click, or Space / Enter in
\* DynCheckboxEnhanced.
UserToggle == cEvent' \in {"change", "keydown"}

\* C19: a user toggle of a checkbox whose isIndeterminate is true and that is
\* not readonly, disabled or loading flips checked, calls
\* onChange(newChecked, false) once and no more, and leaves isIndeterminate
\* false and the visual state 'checked' or 'unchecked'.
C19_ToggleClearsIndeterminate ==
  [][(isIndeterminate /\ ~cReadonly /\ ~cLoading /\ UserToggle) =>
       /\ checked' = ~checked
       /\ cOnChange' = << <<checked', FALSE>> >>
       /\ ~isIndeterminate'
       /\ getVisualState' = IF checked' THEN "checked" ELSE "unchecked"]_vars

\* C20: a render with indeterminate = true that follows a user toggle which
\* cleared isIndeterminate leaves isIndeterminate and the element's flag true,
\* and they stay true over the renders with indeterminate = true that follow.
C20_IndeterminateReasserted ==
  /\ [][(cEvent \in {"change", "keydown"} /\ cBefore /\ ~isIndeterminate
         /\ cEvent' = "render" /\ indeterminate') =>
          (isIndeterminate' /\ nativeIndeterminate')]_vars
  /\ [][(isIndeterminate /\ nativeIndeterminate
         /\ cEvent' = "render" /\ indeterminate') =>
          (isIndeterminate' /\ nativeIndeterminate')]_vars

(* --------------------------- DynTableEnhanced --------------------------- *)
\* The keys of the rows of dataSource, and those of them that are selected.
RowKeys == {getRowKey(dataSource[i]) : i \in 1..Len(dataSource)}
SelectedKeys == RowKeys \cap {selectedRowKeys[i] : i \in 1..Len(selectedRowKeys)}

\* The keys of a reported key list.
KeysOf(call) == {call.keys[i] : i \in 1..Len(call.keys)}

Without(keys, rowKey) == SelectSeq(keys, LAMBDA key : key # rowKey)

C23_SortToggles ==
  /\ [][tEvent' = "sort" =>
          /\ FindColumn(tClicked').sortable
          /\ internalSortConfig'.key = tClicked'
          /\ internalSortConfig'.direction =
               IF internalSortConfig = [key |-> tClicked', direction |-> "asc"]
                 THEN "desc" ELSE "asc"
          /\ tOnSortChange' = <<internalSortConfig'>>]_vars
  /\ [](tClicked # Null =>
          /\ internalSortConfig.key = tClicked
          /\ internalSortConfig.direction \in {"asc", "desc"})

\* The second click in a row on the header of name has made the sort
\* descending.
C23_Witness ==
  /\ tEvent = "sort"
  /\ tClicked = "name"
  /\ internalSortConfig = [key |-> "name", direction |-> "desc"]
  /\ tOnSortChange = <<[key |-> "name", direction |-> "desc"]>>

\* C24: with pagination the rendered rows are the elements of the filtered
\* and sorted list at indices [(current-1)*pageSize, current*pageSize), fewer
\* or none when the list ends before; the page count is the least number of
\* pages of pageSize that hold total records; Previous is disabled iff
\* current = 1 and Next iff the pages up to current hold total records; 25
\* records in pages of 10 give 10, 10 and 5 rows and a page count of 3.
C24_Pagination ==
  pagination.on =>
    LET start == (pagination.current - 1) * pagination.pageSize
        left == Len(processedData) - start
        count == PageCount(pagination.total, pagination.pageSize)
    IN  /\ Len(paginatedData) =
             IF left <= 0 THEN 0
             ELSE IF left < pagination.pageSize THEN left
             ELSE pagination.pageSize
        /\ \A i \in 1..Len(paginatedData) :
             paginatedData[i] = processedData[start + i]
        /\ count * pagination.pageSize >= pagination.total
        /\ (count - 1) * pagination.pageSize < pagination.total
        /\ PreviousDisabled <=> pagination.current = 1
        /\ NextDisabled <=>
             pagination.current * pagination.pageSize >= pagination.total
        /\ (Len(dataSource) = 25 /\ pagination.pageSize = 10) =>
             /\ count = 3
             /\ Len(paginatedData) = IF pagination.current < 3 THEN 10 ELSE 5

\* The host has moved the example of 25 records to its last page, which
\* shows the five records left.
C24_Witness ==
  /\ tEvent = "paged"
  /\ Len(dataSource) = 25
  /\ pagination.current = 3
  /\ Len(paginatedData) = 5
  /\ NextDisabled

\* The record passes every filter entry that has a text and names a column.
Matches(record) ==
  \A i \in 1..Len(FilterKeys) :
    LET text == internalFilters[FilterKeys[i]]
        column == FindColumn(FilterKeys[i])
    IN  (text # <<>> /\ column # NoColumn) =>
          Includes(toLowerCase(DerivedValue(column, record)), toLowerCase(text))

\* The sort that is in force, if any.
SortActive ==
  internalSortConfig # NoSort /\ FindColumn(internalSortConfig.key) # NoColumn

\* Record a may stand before record b under the sort in force.
InOrder(a, b) ==
  LET column == FindColumn(internalSortConfig.key)
  IN  IF internalSortConfig.direction = "asc"
        THEN ~StringLess(DerivedValue(column, b), DerivedValue(column, a))
        ELSE ~StringLess(DerivedValue(column, a), DerivedValue(column, b))

\* The place of a record in dataSource.
PlaceOf(record) == CHOOSE i \in 1..Len(dataSource) : dataSource[i] = record

\* C25: the list that is cut into pages holds exactly the records of
\* dataSource that pass the filter, each once, in the order of the sort in
\* force (in dataSource order without one); the rendered rows are its slice
\* for the current page, so every rendered record passes the filter.
C25_FilterSortPaginate ==
  /\ \A i \in 1..Len(dataSource) :
       Matches(dataSource[i]) <=>
         (\E j \in 1..Len(processedData) : processedData[j] = dataSource[i])
  /\ \A i, j \in 1..Len(processedData) :
       i < j =>
         /\ processedData[i] # processedData[j]
         /\ IF SortActive THEN InOrder(processedData[i], processedData[j])
            ELSE PlaceOf(processedData[i]) < PlaceOf(processedData[j])
  /\ paginatedData =
       IF pagination.on
         THEN [i \in 1..Len(paginatedData) |->
                 processedData[(pagination.current - 1) * pagination.pageSize + i]]
         ELSE processedData
  /\ \A i \in 1..Len(paginatedData) : Matches(paginatedData[i])

\* The second page of a filtered and sorted table shows a record, and the
\* filter has a capital letter that the record's value has in lower case.
C25_Witness ==
  /\ tEvent = "paged"
  /\ pagination.current = 2
  /\ internalFilters.name = <<"B">>
  /\ internalSortConfig.key = "name"
  /\ Len(processedData) < Len(dataSource)
  /\ Len(paginatedData) = 1
  /\ paginatedData[1].name = <<"b">>

(* ---------------------- setup_dynui_enhanced.sh ----------------------- *)
\* C27: running the script a second time on the tree left by a first run
\* leaves the backups made by the first run with the same contents and the
\* target files with the same contents, so that the file system after two
\* runs equals the file system after one run.
C27_RerunIdempotent ==
  Len(fsAfterRun) >= 2 => fsAfterRun[2] = fsAfterRun[1]

\* C32: with validateOnChange, a change event that comes after an earlier
\* change or a blur replaces the error list with the messages of the rules
\* that fail on the new displayed value, in declaration order, so that the
\* active error is the first of them, or none (an error prop of the host,
\* which goes before the rules, aside).
C32_ValidateOnChange ==
  [][(iValidateOnChange /\ hasInteracted /\ iEvent' \in {"type", "delete"}) =>
       /\ validationErrors' = validateInput(inputValue')
       /\ ~Truthy(iError) =>
            currentError' = IF validateInput(inputValue') = <<>> THEN Undefined
                            ELSE validateInput(inputValue')[1]]_vars

\* C33: a checkbox used with a checked prop shows, after every render by
\* its host, the checked prop of that render, whatever user toggles,
\* toggle() and setChecked() calls and renders came before, also when the
\* host left the prop as it was after an onChange.
C33_ControlledTracksProp ==
  (cControlled /\ cEvent = "host") => checked = checkedProp

\* C34: with a string mask, the value shown in the control is a fixed point
\* of the change transform (its digits, masked again, give the same text)
\* after every change event, clean, setValue() and value prop update, and no
\* value passed to onChange holds a literal character of the mask.
C34_MaskedValueInvariant ==
  mask # <<>> =>
    /\ applyMask(StripNonDigits(inputValue), mask) = inputValue
    /\ \A i \in 1..Len(onChangeCalls) :
         \A j \in 1..Len(onChangeCalls[i]) :
           onChangeCalls[i][j] \notin MaskLiterals(mask)

\* C35: isValidating is true in every state in which a validate() pass,
\* manual or automatic, has started and not finished, also when passes
\* overlap; so isValid is not true while a pass is in flight.
C35_ValidatingWhileInFlight ==
  vPending # EmptyBag => (isValidating /\ ~IsValid)

(* -------------- rules without validators, throwing validators ------------- *)
\* The messages in the sequence errs.
Messages(errs) == {errs[i] : i \in 1..Len(errs)}

\* C36: with an async rule and no pass in flight, the rule-derived errors are
\* those of the most recently started pass: 'is required' is stored exactly
\* when the value that pass captured is empty, whichever pass resolved last,
\* and when no pass was started since the latest reset() the stored errors
\* are empty.
C36_LatestPassWins ==
  (vPending = EmptyBag /\ rules = <<AsyncRule, RequiredRule>> /\ ~stopOnFirstError) =>
    /\ vLatest = Undefined => errors = <<>>
    /\ vLatest # Undefined =>
         (RequiredRule.message \in Messages(errors) <=> vLatest = "")

\* How often message e occurs in the list errs.
Occurrences(e, errs) == Cardinality({i \in 1..Len(errs) : errs[i] = e})

\* C37: the returned errors contain the current custom error exactly once
\* while one is set, and after setCustomError(undefined) they contain no
\* message that was given to setCustomError.
C37_CustomErrorOnce ==
  /\ Truthy(customError) => Occurrences(customError, AllErrors) = 1
  /\ customError = Undefined =>
       \A e \in CustomErrorArgs : Truthy(e) => Occurrences(e, AllErrors) = 0

\* The next command overwrites path, a file the project had before the run.
Overwrites(path) ==
  /\ ScriptRunning
  /\ run = 1
  /\ Script[pc].op = "cat"
  /\ Script[pc].dst = path
  /\ IsFile(fs, path)

\* Another file of tree holds the content that path has in fs.
HasBackup(tree, path) ==
  \E q \in DOMAIN tree : q # path /\ IsFile(tree, q) /\ tree[q] = fs[path]

\* C38: when the script overwrites a file that existed before the run, a
\* copy with the file's pre-run content exists already, and the copy is
\* still there, unchanged, after the overwrite.
C38_BackupBeforeOverwrite ==
  [][\A path \in WrittenFiles :
       Overwrites(path) => (HasBackup(fs, path) /\ HasBackup(fs', path))]_vars

\* The records of result that pass the entries of filters from entry i on.
RECURSIVE FilteredBy(_, _, _)
FilteredBy(filters, result, i) ==
  IF i > Len(FilterKeys) THEN result
  ELSE FilteredBy(filters,
                  IF filters[FilterKeys[i]] = <<>> THEN result
                  ELSE SelectSeq(result,
                         LAMBDA record :
                           KeepsRecord(FilterKeys[i], filters[FilterKeys[i]], record)),
                  i + 1)

\* The rows of the current page for the given filter and sort configuration.
RowsFor(filters, sort) ==
  LET filtered == FilteredBy(filters, dataSource, 1)
      column == FindColumn(sort.key)
      rows == IF sort # NoSort /\ column # NoColumn
                THEN SortRecords(filtered, column, sort.direction)
                ELSE filtered
  IN  IF ~pagination.on THEN rows
      ELSE Slice(rows, PageStart(pagination),
                 PageStart(pagination) + pagination.pageSize)

\* C39: on the render after the host changed the filterConfig or sortConfig
\* prop of a mounted table, the rows shown are the data filtered by the new
\* filterConfig and ordered by the new sortConfig.
C39_FollowsConfigProps ==
  tEvent = "config" => paginatedData = RowsFor(filterConfig, sortConfig)

\* C40: onAfterOpen and onAfterClose are invoked in strict alternation,
\* starting with onAfterOpen: a step that invokes onAfterOpen follows no
\* earlier onAfterOpen without an onAfterClose between them, and a step that
\* invokes onAfterClose follows an onAfterOpen with no onAfterClose since.
C40_LifecycleAlternates ==
  [][/\ mCalls' = <<"onAfterOpen">> => mLifecycle # "onAfterOpen"
     /\ mCalls' = <<"onAfterClose">> => mLifecycle = "onAfterOpen"]_vars

\* C28: a rule of type custom with no customValidator, or of type async with
\* no asyncValidator, is treated as valid: its message never appears in the
\* error list of useEnhancedValidation, of either input or of either
\* checkbox.
C28_BareRulesValid ==
  /\ BareCustomRule.message \notin Messages(errors)
  /\ BareAsyncRule.message \notin Messages(errors)
  /\ InputBareCustomRule.message \notin Messages(validationErrors)
  /\ InputBareAsyncRule.message \notin Messages(validationErrors)
  /\ CheckboxBareCustomRule.message \notin Messages(cValidationErrors)

\* C29: in the dual-mode DynInput an async rule in the validation list adds
\* no message to the error list, whatever the value, and never makes the
\* imperative validate() return false.
C29_AsyncNotEvaluated ==
  (iVariant = DynInput /\ validation \in {<<InputAsyncRule>>, <<InputBareAsyncRule>>}) =>
    /\ validationErrors = <<>>
    /\ iOutcome # "false"

\* C30: when a customValidator given to DynInput, DynInputEnhanced,
\* DynCheckbox or DynCheckboxEnhanced throws, the change handler, the blur
\* handler and the imperative validate() complete without throwing, and the
\* rule is in the error list with its message after they called it.
C30_ValidatorsNeverThrow ==
  /\ iOutcome # Thrown
  /\ cOutcome # Thrown
  /\ ( /\ InputThrowingRule \in {validation[i] : i \in 1..Len(validation)}
       /\ inputValue # <<>>
       /\ \/ iEvent = "validate"
          \/ iEvent = "blur" /\ validateOnBlur ) =>
       InputThrowingRule.message \in Messages(validationErrors)
  /\ ( /\ CheckboxThrowingRule \in {cValidation[i] : i \in 1..Len(cValidation)}
       /\ cEvent \in {"validate", "blur"} ) =>
       CheckboxThrowingRule.message \in Messages(cValidationErrors)

(* --------------------------- css-generator.ts -------------------------- *)
\* A key in sanitized form: lower case, only [a-z0-9_-], no dash at either
\* end and no doubled dash.
IsSanitized(k) ==
  /\ \A i \in 1..Len(k) : k[i] \in ValidKeyChars
  /\ k # <<>> => (Head(k) # "-" /\ k[Len(k)] # "-")
  /\ \A i \in 2..Len(k) : ~(k[i] = "-" /\ k[i - 1] = "-")

\* C31: sanitizeTokenKey(sanitizeTokenKey(k)) = sanitizeTokenKey(k) for every
\* key k, and a key already in sanitized form is returned unchanged.
C31_SanitizeIdempotent ==
  /\ Len(sanitized) >= 2 => sanitized[2] = sanitized[1]
  /\ (Len(sanitized) >= 1 /\ IsSanitized(tokenKey)) => sanitized[1] = tokenKey

\* A key with capitals, dots and blanks was sanitized twice, and a key in
\* sanitized form with a dash and an underscore once.
C31_Witness ==
  \/ /\ tokenKey = <<" ", ".", "A", ".">>
     /\ sanitized = << <<"a">>, <<"a">> >>
  \/ /\ tokenKey = <<"a", "-", "_", "1">>
     /\ sanitized = <<tokenKey>>

(* -------------------------- DynModalEnhanced -------------------------- *)
\* The modal has been opened at least once.
HasOpened == previouslyFocusedElement # NoElement

\* C4: from the change of open to false while the modal is visible, the modal
\* stays rendered, in its exiting state, until animationDuration has elapsed;
\* then the timer sets isVisible to false, nothing is rendered and
\* onAfterClose is invoked (and only then).
C4_ClosingLifecycle ==
  /\ (~open /\ isVisible) =>
       /\ Rendered
       /\ AnimationClass = "exiting"
       /\ now <= mChangedAt + animationDuration
       /\ \E t \in mTimers :
            t.kind = "close" /\ t.due = mChangedAt + animationDuration
  /\ (~open /\ ~isVisible /\ HasOpened) =>
       /\ now >= mChangedAt + animationDuration
       /\ ~Rendered
       /\ ~isAnimating
       /\ mTimers = {}
  /\ mEvent = "timerClose" =>
       /\ ~mBefore.open /\ mBefore.isVisible
       /\ ~isVisible
       /\ ~Rendered
       /\ now = mChangedAt + animationDuration
       /\ mCalls = <<"onAfterClose">>
  /\ mEvent # "timerClose" => \A i \in 1..Len(mCalls) : mCalls[i] # "onAfterClose"

C4_Witness ==
  /\ mEvent = "timerClose"
  /\ animationDuration = MaxAnimationDuration
  /\ now = mChangedAt + MaxAnimationDuration
  /\ ~isVisible
  /\ mCalls = <<"onAfterClose">>

\* C5: on the change of open to true the modal is visible at once, rendered
\* in its entering state; while open stays true the entering state lasts until
\* animationDuration has elapsed, and then the timer ends it and invokes
\* onAfterOpen (and only then).
C5_OpeningLifecycle ==
  /\ open => Rendered
  /\ (mEvent = "setOpen" /\ open) =>
       /\ AnimationClass = "entering"
       /\ now = mChangedAt
  /\ (open /\ isAnimating) =>
       /\ now <= mChangedAt + animationDuration
       /\ \E t \in mTimers :
            t.kind = "open" /\ t.due = mChangedAt + animationDuration
  /\ (open /\ ~isAnimating) =>
       /\ now >= mChangedAt + animationDuration
       /\ mTimers = {}
  /\ mEvent = "timerOpen" =>
       /\ open
       /\ AnimationClass = "none"
       /\ now = mChangedAt + animationDuration
       /\ mCalls = <<"onAfterOpen">>
  /\ mEvent # "timerOpen" => \A i \in 1..Len(mCalls) : mCalls[i] # "onAfterOpen"

C5_Witness ==
  /\ mEvent = "timerOpen"
  /\ animationDuration = MaxAnimationDuration
  /\ now = mChangedAt + MaxAnimationDuration
  /\ open /\ isVisible /\ ~isAnimating
  /\ mCalls = <<"onAfterOpen">>

C7_FocusRestored ==
  /\ (mEvent = "timerClose" /\ mOpenedFrom \in OutsideElements) =>
       activeElement = mOpenedFrom
  /\ (mEvent = "setOpen" /\ open) =>
       activeElement = IF nFocusable > 0 THEN Focusable(1) ELSE Container

C7_Witness ==
  /\ mEvent = "timerClose"
  /\ mOpenedFrom \in OutsideElements
  /\ activeElement = mOpenedFrom
  /\ nFocusable > 0

\* C8: in an open modal with at least one focusable descendant, Tab on the
\* last one moves the focus to the first, Shift+Tab on the first moves it to
\* the last, and the focus is always on a focusable descendant.
C8_FocusTrapped ==
  /\ (trapActive /\ nFocusable >= 1) => activeElement \in FocusableElements
  /\ (/\ mEvent = "tab"
      /\ nFocusable >= 1
      /\ mBefore.activeElement = Focusable(nFocusable)) =>
       activeElement = Focusable(1)
  /\ (/\ mEvent = "shiftTab"
      /\ nFocusable >= 1
      /\ mBefore.activeElement = Focusable(1)) =>
       activeElement = Focusable(nFocusable)

C8_Witness ==
  /\ mEvent = "shiftTab"
  /\ nFocusable = 2
  /\ mBefore.activeElement = Focusable(1)
  /\ activeElement = Focusable(2)

\* C9: a click on the backdrop itself invokes onBackdropClick and then
\* onClose iff closeOnBackdrop is set, any other click invokes nothing; an
\* Escape press while open invokes onClose alone iff closeOnEscape is set; only
\* the host changes open.
C9_Dismissal ==
  /\ mEvent = "backdropClick" =>
       mCalls = IF closeOnBackdrop THEN <<"onBackdropClick", "onClose">> ELSE <<>>
  /\ mEvent = "dialogClick" => mCalls = <<>>
  /\ (mEvent = "escape" /\ mBefore.open) =>
       mCalls = IF closeOnEscape THEN <<"onClose">> ELSE <<>>
  /\ mEvent \notin {"setOpen", "mount"} => open = mBefore.open

C9_Witness ==
  /\ mEvent = "backdropClick"
  /\ closeOnBackdrop
  /\ open
  /\ mCalls = <<"onBackdropClick", "onClose">>

====
